---- MODULE Spec2Model ----
(***************************************************************************)
(* Tableau-to-Power-BI artifact pipeline.                                  *)
(*                                                                         *)
(* Text is modelled as a sequence of one-character strings, so that the    *)
(* sanitizers and the type normalizer are computed character by character  *)
(* as the Python code computes them.  Python's None is the value None      *)
(* below, which is no character sequence a program input can be.           *)
(***************************************************************************)
EXTENDS Integers, Sequences, FiniteSets, TLC

VARIABLES
    \* ---- identifier sanitizer harness (safe_id of both scripts)
    san_mod, san_name, san_once, san_twice, san_pc,
    \* ---- type normalizer harness (normalize_type)
    nt_t, nt_out, nt_pc,
    \* ---- authoring-script generator (generate_script)
    te3_ms,        \* the ModelSpec document read from modelspec_path
    te3_script,    \* the lines written to TE3_apply_<reportId>.csx, None before
    te3_pc,
    \* ---- artifact generation (generate_artifacts), one process
    env_report_id,   \* the REPORT_ID environment variable, None when unset
    parsed_meta,     \* the ParsedMetadata document given to the stage
    source_type,     \* --source-type
    source_config,   \* --source-config, a mapping from keys to texts
    run,             \* the number of the current run of the pipeline
    ga_pc,           \* where generate_artifacts stands
    report_id, generated_at, model_path, dax_files, visual_path,  \* its locals
    ga_ret,          \* what it returned or raised, None before
    fs,              \* the files on disk: path -> content
    dirs,            \* the directories on disk
    written,         \* the paths written by the current run, in order
    \* ---- data-access expression harness (generate_powerquery)
    pq_type, pq_cfg, pq_out, pq_pc,
    \* ---- layout projection (generate_report_json) and the runs of the pipeline
    rj_pc,           \* where generate_report_json stands
    prev,            \* the documents the previous run of the pipeline left
    \* ---- the services behind the routers, one process per run of the pipeline
    svc_rid,         \* run -> its report_id
    svc_file,        \* run -> the file name of the workbook it uploads
    svc_pc,          \* run -> the handler it calls next
    svc_seen,        \* run -> the writers of the files it has read or returned
    svc_out,         \* run -> out_file of its run of generate_te3_script.py
    svc_ret,         \* run -> what generate_te3_script returned or raised
    svc_disk,        \* the work directory: path -> the run that wrote it and its reportId
    \* ---- extraction routines of generate_parsed_meta.py, one call
    xt_in, xt_out, xt_pc

san_vars == <<san_mod, san_name, san_once, san_twice, san_pc>>
nt_vars  == <<nt_t, nt_out, nt_pc>>
te3_vars == <<te3_ms, te3_script, te3_pc>>
ga_vars  == <<env_report_id, parsed_meta, source_type, source_config, run, ga_pc,
              report_id, generated_at, model_path, dax_files, visual_path,
              ga_ret, fs, dirs, written>>
pq_vars  == <<pq_type, pq_cfg, pq_out, pq_pc>>
rj_vars  == <<rj_pc, prev>>
svc_vars == <<svc_rid, svc_file, svc_pc, svc_seen, svc_out, svc_ret, svc_disk>>
xt_vars  == <<xt_in, xt_out, xt_pc>>
vars     == <<san_vars, nt_vars, te3_vars, ga_vars, pq_vars, rj_vars, svc_vars, xt_vars>>

(***************************************************************************)
(* Bounds                                                                  *)
(***************************************************************************)
MaxLen == 3        \* longest identifier given to the sanitizers
MaxFrags == 2      \* longest raw type, in fragments of TypeFrags
MaxTables == 2     \* most tables of a ModelSpec
MaxRels == 1       \* most relationship records of a ModelSpec
MaxPmTables == 1   \* most tables of a ParsedMetadata
MaxCols == 1       \* most columns of a table of a ParsedMetadata
MaxMeasures == 2   \* most measures of a ParsedMetadata
MaxPages == 2      \* most pages of a visual spec
MaxVisuals == 2    \* most visuals of a page
MaxUuid == 2       \* the outcomes of the random source of uuid4, per process
MaxRuns == 2       \* the runs of the pipeline on one input
MaxProcs == 2      \* the concurrent runs of the pipeline, each for a report of its own
MaxMembers == 2    \* most members of a workbook archive
MaxPreferred == 2  \* most names of a preferred list
MaxNodes == 3      \* most datasource nodes of a workbook
MaxColumnNodes == 2  \* most column nodes of a workbook
MaxCandidates == 3   \* most calculation nodes of a workbook

(***************************************************************************)
(* Text helpers: the str methods and regular expressions the code uses     *)
(***************************************************************************)
None == <<"<None>">>

\* Python truthiness of an optional string: None and "" are falsy
Truthy(s) == s # None /\ s # <<>>

Digits == {"0", "1", "2", "3", "4", "5", "6", "7", "8", "9"}
UpperSeq == <<"A", "B", "C", "D", "E", "F", "G", "H", "I", "J", "K", "L", "M",
              "N", "O", "P", "Q", "R", "S", "T", "U", "V", "W", "X", "Y", "Z">>
LowerSeq == <<"a", "b", "c", "d", "e", "f", "g", "h", "i", "j", "k", "l", "m",
              "n", "o", "p", "q", "r", "s", "t", "u", "v", "w", "x", "y", "z">>
Letters == {UpperSeq[i] : i \in 1..26} \cup {LowerSeq[i] : i \in 1..26}
\* the complement of the class [^0-9A-Za-z_]
WordChars == Digits \cup Letters \cup {"_"}
\* the characters str.strip() removes
Whitespace == {" ", "\t", "\n", "\r"}

LowerChar(c) ==
    IF \E i \in 1..26 : UpperSeq[i] = c
    THEN LowerSeq[CHOOSE i \in 1..26 : UpperSeq[i] = c]
    ELSE c

\* str.lower()
Lower(s) == [i \in 1..Len(s) |-> LowerChar(s[i])]

\* str.strip()
Strip(s) ==
    LET keep == {i \in 1..Len(s) : s[i] \notin Whitespace}
    IN  IF keep = {} THEN <<>>
        ELSE LET lo == CHOOSE i \in keep : \A j \in keep : i <= j
                 hi == CHOOSE i \in keep : \A j \in keep : j <= i
             IN  SubSeq(s, lo, hi)

\* str.replace(a, b) for one-character a and b
ReplaceChar(s, a, b) == [i \in 1..Len(s) |-> IF s[i] = a THEN b ELSE s[i]]

\* re.sub(r"[^...]", "_", s): every character outside keep becomes "_"
SubOutside(s, keep) == [i \in 1..Len(s) |-> IF s[i] \in keep THEN s[i] ELSE "_"]

\* str.isdigit() on ASCII text, and re.fullmatch(r"\d+", s)
IsDigit(s) == Len(s) > 0 /\ \A i \in 1..Len(s) : s[i] \in Digits

\* "sub in s"
Contains(s, sub) ==
    \E i \in 0..(Len(s) - Len(sub)) :
        \A j \in 1..Len(sub) : s[i + j] = sub[j]

(***************************************************************************)
(* generate_pbi_artifacts_prod.py: safe_id, normalize_type                 *)
(***************************************************************************)
unnamed == <<"u", "n", "n", "a", "m", "e", "d">>

safe_id(name) ==
    IF ~Truthy(name) THEN unnamed
    ELSE LET s1 == ReplaceChar(Strip(name), " ", "_")
             s2 == SubOutside(s1, WordChars)
         IN  IF IsDigit(s2) THEN <<"_">> \o s2 ELSE s2

(***************************************************************************)
(* generate_te3_script.py: safe_id                                         *)
(***************************************************************************)
Unnamed == <<"U", "n", "n", "a", "m", "e", "d">>

safe_id_te3(name) ==
    IF ~Truthy(name) THEN Unnamed
    ELSE LET s1 == Strip(name)
             s2 == SubOutside(s1, WordChars \cup {" "})
             s3 == ReplaceChar(s2, " ", "_")
         IN  IF IsDigit(s3) THEN <<"_">> \o s3 ELSE s3

(***************************************************************************)
(* Sanitizer harness: a name is sanitized, and the result sanitized again  *)
(***************************************************************************)
Alphabet == {"a", "7", " ", "-", "_"}

\* all texts over the alphabet a of length at most n
Texts(a, n) == UNION {[1..k -> a] : k \in 0..n}

SanModules == {"pbi", "te3"}

Sanitize(mod, name) == IF mod = "pbi" THEN safe_id(name) ELSE safe_id_te3(name)

SanIdle ==
    /\ san_mod = "pbi" /\ san_name = None /\ san_once = None
    /\ san_twice = None /\ san_pc = "idle"

SanInit ==
    /\ san_mod \in SanModules
    /\ san_name \in Texts(Alphabet, MaxLen) \cup {None}
    /\ san_once = None
    /\ san_twice = None
    /\ san_pc = "in"

SanitizeOnce ==
    /\ san_pc = "in"
    /\ san_once' = Sanitize(san_mod, san_name)
    /\ san_pc' = "once"
    /\ UNCHANGED <<san_mod, san_name, san_twice, nt_vars, te3_vars, ga_vars, pq_vars, rj_vars, svc_vars, xt_vars>>

SanitizeTwice ==
    /\ san_pc = "once"
    /\ san_twice' = Sanitize(san_mod, san_once)
    /\ san_pc' = "twice"
    /\ UNCHANGED <<san_mod, san_name, san_once, nt_vars, te3_vars, ga_vars, pq_vars, rj_vars, svc_vars, xt_vars>>

(* C4: sanitizing an already sanitized name changes nothing, for both       *)
(* sanitizers: safe_id(safe_id(x)) = safe_id(x).                           *)
C4_Idempotent == san_pc = "twice" => san_twice = san_once

(* C5: the sanitized name never starts with a digit and holds only         *)
(* characters of [0-9A-Za-z_].                                             *)
C5_ValidIdentifier ==
    san_pc \in {"once", "twice"} =>
        /\ (san_once # <<>> => san_once[1] \notin Digits)
        /\ \A i \in 1..Len(san_once) : san_once[i] \in WordChars

SanNext == SanitizeOnce \/ SanitizeTwice

(***************************************************************************)
(* generate_pbi_artifacts_prod.py: normalize_type                          *)
(***************************************************************************)
\* normalize_type without its t.lower()
normalize_type_case_sensitive(t) ==
    IF ~Truthy(t) THEN "String"
    ELSE IF t \in {<<"i", "n", "t">>,
                   <<"i", "n", "t", "e", "g", "e", "r">>,
                   <<"l", "o", "n", "g">>}
         THEN "Int64"
         ELSE IF t \in {<<"f", "l", "o", "a", "t">>,
                        <<"d", "o", "u", "b", "l", "e">>,
                        <<"d", "e", "c", "i", "m", "a", "l">>,
                        <<"r", "e", "a", "l">>}
         THEN "Double"
         ELSE IF Contains(t, <<"d", "a", "t", "e">>) THEN "DateTime"
         ELSE IF Contains(t, <<"b", "o", "o", "l">>) THEN "Boolean"
         ELSE "String"

normalize_type(t) ==
    IF ~Truthy(t) THEN "String"
    ELSE LET l == Lower(t)
         IN  IF l \in {<<"i", "n", "t">>,
                       <<"i", "n", "t", "e", "g", "e", "r">>,
                       <<"l", "o", "n", "g">>}
             THEN "Int64"
             ELSE IF l \in {<<"f", "l", "o", "a", "t">>,
                            <<"d", "o", "u", "b", "l", "e">>,
                            <<"d", "e", "c", "i", "m", "a", "l">>,
                            <<"r", "e", "a", "l">>}
             THEN "Double"
             ELSE IF Contains(l, <<"d", "a", "t", "e">>) THEN "DateTime"
             ELSE IF Contains(l, <<"b", "o", "o", "l">>) THEN "Boolean"
             ELSE "String"

(***************************************************************************)
(* Type normalizer harness: raw types are built from the fragments the     *)
(* rules look for, in both cases, and from fragments they do not know      *)
(***************************************************************************)
TypeFrags ==
    {<<"i", "n", "t">>, <<"I", "n", "t">>, <<"e", "g", "e", "r">>,
     <<"l", "o", "n", "g">>, <<"L", "O", "N", "G">>,
     <<"f", "l", "o", "a", "t">>, <<"D", "o", "u", "b", "l", "e">>,
     <<"d", "e", "c", "i", "m", "a", "l">>, <<"r", "e", "a", "l">>,
     <<"d", "a", "t", "e">>, <<"D", "A", "T", "E">>,
     <<"b", "o", "o", "l">>, <<"B", "o", "o", "l">>,
     <<"s", "t", "r">>, <<"x">>}

RECURSIVE Concat(_)
\* the concatenation of a sequence of texts
Concat(ws) == IF ws = <<>> THEN <<>> ELSE Head(ws) \o Concat(Tail(ws))

RawTypes == {Concat(ws) : ws \in Texts(TypeFrags, MaxFrags)} \cup {None}

NtIdle == nt_t = None /\ nt_out = "" /\ nt_pc = "idle"

NtInit ==
    /\ nt_t \in RawTypes
    /\ nt_out = ""
    /\ nt_pc = "in"

Normalize ==
    /\ nt_pc = "in"
    /\ nt_out' = normalize_type(nt_t)
    /\ nt_pc' = "done"
    /\ UNCHANGED <<nt_t, san_vars, te3_vars, ga_vars, pq_vars, rj_vars, svc_vars, xt_vars>>

NtNext == Normalize

TypeEnum == {"Int64", "Double", "DateTime", "Boolean", "String"}

IntWords == {"int", "integer", "long"}

\* the text of a TLA+ string constant of the rules
Chars(w) ==
    CASE w = "int" -> <<"i", "n", "t">>
      [] w = "integer" -> <<"i", "n", "t", "e", "g", "e", "r">>
      [] w = "long" -> <<"l", "o", "n", "g">>
      [] w = "float" -> <<"f", "l", "o", "a", "t">>
      [] w = "double" -> <<"d", "o", "u", "b", "l", "e">>
      [] w = "decimal" -> <<"d", "e", "c", "i", "m", "a", "l">>
      [] w = "real" -> <<"r", "e", "a", "l">>
      [] w = "date" -> <<"d", "a", "t", "e">>
      [] w = "bool" -> <<"b", "o", "o", "l">>

\* t and w are the same text up to the case of the letters
EqualsIgnoreCase(t, w) ==
    /\ Len(t) = Len(Chars(w))
    /\ \A i \in 1..Len(t) : LowerChar(t[i]) = Chars(w)[i]

\* t holds w somewhere, up to the case of the letters
ContainsIgnoreCase(t, w) ==
    \E i \in 1..Len(t) : \E j \in i..Len(t) : EqualsIgnoreCase(SubSeq(t, i, j), w)

(* C6: normalize_type maps every raw type, empty and null included, to     *)
(* exactly one type of the enumeration, by the case-insensitive rules      *)
(* taken in order: int/integer/long -> Int64; float/double/decimal/real    *)
(* -> Double; containing "date" -> DateTime; containing "bool" -> Boolean; *)
(* anything else -> String.                                                *)
C6_NormalizeType ==
    nt_pc = "done" =>
        LET isInt == Truthy(nt_t) /\ \E w \in IntWords : EqualsIgnoreCase(nt_t, w)
            isDbl == Truthy(nt_t) /\ \E w \in {"float", "double", "decimal", "real"} :
                         EqualsIgnoreCase(nt_t, w)
            isDate == Truthy(nt_t) /\ ContainsIgnoreCase(nt_t, "date")
            isBool == Truthy(nt_t) /\ ContainsIgnoreCase(nt_t, "bool")
        IN  /\ nt_out \in TypeEnum
            /\ isInt => nt_out = "Int64"
            /\ isDbl => nt_out = "Double"
            /\ (isDate /\ ~isInt /\ ~isDbl) => nt_out = "DateTime"
            /\ (isBool /\ ~isDate /\ ~isInt /\ ~isDbl) => nt_out = "Boolean"
            /\ (~isInt /\ ~isDbl /\ ~isDate /\ ~isBool) => nt_out = "String"

\* a mixed-case raw type holding "date" has been normalized
C6_Witness ==
    /\ nt_pc = "done"
    /\ nt_t # None /\ nt_t # Lower(nt_t)
    /\ ContainsIgnoreCase(nt_t, "date") /\ ContainsIgnoreCase(nt_t, "bool")
    /\ nt_out = "DateTime"

(***************************************************************************)
(* generate_te3_script.py: the authoring-script generator.                 *)
(* A script is a sequence of lines; a line is its kind and the texts       *)
(* interpolated into it, in the order of the f-string.                     *)
(***************************************************************************)
Line(kind, args) == [kind |-> kind, args |-> args]

BlankLine == Line("blank", <<>>)

map_datatype(dt) ==
    IF ~Truthy(dt) THEN "DataType.String"
    ELSE LET t == Lower(dt)
         IN  IF t \in {<<"i", "n", "t", "6", "4">>,
                       <<"i", "n", "t", "e", "g", "e", "r">>,
                       <<"i", "n", "t">>, <<"l", "o", "n", "g">>}
             THEN "DataType.Int64"
             ELSE IF t \in {<<"d", "o", "u", "b", "l", "e">>,
                            <<"f", "l", "o", "a", "t">>,
                            <<"d", "e", "c", "i", "m", "a", "l">>,
                            <<"r", "e", "a", "l">>,
                            <<"n", "u", "m", "b", "e", "r">>}
             THEN "DataType.Double"
             ELSE IF Contains(t, <<"d", "a", "t", "e">>) THEN "DataType.DateTime"
             ELSE IF Contains(t, <<"b", "o", "o", "l">>) THEN "DataType.Boolean"
             ELSE "DataType.String"

RECURSIVE EscapeQuotes(_)
\* s.replace('"', '\\"')
EscapeQuotes(s) ==
    IF s = <<>> THEN <<>>
    ELSE (IF Head(s) = "\"" THEN <<"\\", "\"">> ELSE <<Head(s)>>)
             \o EscapeQuotes(Tail(s))

\* the text of one of the enumerated type names
TypeChars(ty) ==
    CASE ty = "Int64" -> <<"I", "n", "t", "6", "4">>
      [] ty = "Double" -> <<"D", "o", "u", "b", "l", "e">>
      [] ty = "DateTime" -> <<"D", "a", "t", "e", "T", "i", "m", "e">>
      [] ty = "Boolean" -> <<"B", "o", "o", "l", "e", "a", "n">>
      [] ty = "String" -> <<"S", "t", "r", "i", "n", "g">>

gen_table_block(table) ==
    LET tname == table.name
        tname_safe == safe_id_te3(tname)
    IN  <<Line("comment_table", <<tname>>),
          Line("find_or_add_table", <<tname_safe, tname, tname>>)>>
        \o [i \in 1..Len(table.columns) |->
               Line("add_column_if_absent",
                    <<tname_safe, EscapeQuotes(table.columns[i].name),
                      <<map_datatype(TypeChars(table.columns[i].type))>>>>)]
        \o <<BlankLine>>

gen_measure_block(measure) ==
    LET name == measure.name
        expr == IF Truthy(measure.expression) THEN measure.expression
                ELSE <<"// TODO: Define expression for ">> \o name
    IN  <<Line("comment_measure", <<name>>),
          Line("find_measure", <<EscapeQuotes(name)>>),
          Line("if_null_add_measure", <<EscapeQuotes(name), EscapeQuotes(expr)>>),
          Line("else_set_expression", <<EscapeQuotes(expr)>>),
          BlankLine>>

\* gen_relationship_block with the two skip tests joined by "and"
gen_relationship_block_either_table(rel, table_names) ==
    LET ft == rel.from_table
        fc == rel.from_column
        tt == rel.to_table
        tc == rel.to_column
    IN  IF ~Truthy(ft) \/ ~Truthy(fc) \/ ~Truthy(tt) \/ ~Truthy(tc)
        THEN <<Line("skip_invalid", <<>>), BlankLine>>
        ELSE IF (\A i \in 1..Len(table_names) : table_names[i] # ft)
                 /\ (\A i \in 1..Len(table_names) : table_names[i] # tt)
        THEN <<Line("skip_table_not_found", <<>>), BlankLine>>
        ELSE <<Line("comment_relationship", <<ft, fc, tt, tc>>),
               Line("AddRelationship", <<safe_id_te3(ft), fc, safe_id_te3(tt), tc>>),
               BlankLine>>

gen_relationship_block(rel, table_names) ==
    LET ft == rel.from_table
        fc == rel.from_column
        tt == rel.to_table
        tc == rel.to_column
    IN  IF ~Truthy(ft) \/ ~Truthy(fc) \/ ~Truthy(tt) \/ ~Truthy(tc)
        THEN <<Line("skip_invalid", <<>>), BlankLine>>
        ELSE IF (\A i \in 1..Len(table_names) : table_names[i] # ft)
                 \/ (\A i \in 1..Len(table_names) : table_names[i] # tt)
        THEN <<Line("skip_table_not_found", <<>>), BlankLine>>
        ELSE <<Line("comment_relationship", <<ft, fc, tt, tc>>),
               Line("AddRelationship", <<safe_id_te3(ft), fc, safe_id_te3(tt), tc>>),
               BlankLine>>

\* the template: fixed text around the three placeholders
Template ==
    <<Line("template_head", <<>>),
      Line("placeholder", <<"{{TABLES}}">>),
      Line("placeholder", <<"{{MEASURES}}">>),
      Line("placeholder", <<"{{RELATIONSHIPS}}">>),
      Line("template_tail", <<>>)>>

RECURSIVE JoinBlocks(_)
\* "\n".join(blocks), as lines
JoinBlocks(blocks) ==
    IF blocks = <<>> THEN <<>> ELSE Head(blocks) \o JoinBlocks(Tail(blocks))

\* what stands in a line for the code that replaced a token inside it
Inserted(token) ==
    CASE token = "{{TABLES}}" -> "<tables_code>"
      [] token = "{{MEASURES}}" -> "<measures_code>"
      [] token = "{{RELATIONSHIPS}}" -> "<relationships_code>"

\* line.replace(token, code) on a line of generated code: every text
\* interpolated into the line loses its occurrences of the token
ReplaceInLine(line, token) ==
    Line(line.kind,
         [k \in 1..Len(line.args) |->
             [i \in 1..Len(line.args[k]) |->
                 IF line.args[k][i] = token THEN Inserted(token) ELSE line.args[k][i]]])

RECURSIVE ReplacePlaceholder(_, _, _)
\* text.replace(token, code), as lines: the placeholder of the template
\* becomes the code, and so does every occurrence of the token in the code
\* that earlier replacements put in
ReplacePlaceholder(text, token, code) ==
    IF text = <<>> THEN <<>>
    ELSE (IF Head(text).kind = "placeholder"
          THEN (IF Head(text).args = <<token>> THEN code ELSE <<Head(text)>>)
          ELSE <<ReplaceInLine(Head(text), token)>>)
             \o ReplacePlaceholder(Tail(text), token, code)

\* the blocks of the relationships, one per record of the ModelSpec
relationship_blocks(ms) ==
    LET table_names == [i \in 1..Len(ms.tables) |-> ms.tables[i].name]
    IN  [i \in 1..Len(ms.relationships) |->
            gen_relationship_block(ms.relationships[i], table_names)]

\* d.get(k, default)
Get(d, k, default) == IF k \in DOMAIN d THEN d[k] ELSE default

tables_code(ms) ==
    LET tables == Get(ms, "tables", <<>>)
    IN  JoinBlocks([i \in 1..Len(tables) |-> gen_table_block(tables[i])])

measures_code(ms) ==
    LET measures == Get(ms, "measures", <<>>)
    IN  JoinBlocks([i \in 1..Len(measures) |-> gen_measure_block(measures[i])])

relationships_code(ms) == JoinBlocks(relationship_blocks(ms))

final_script(ms) ==
    ReplacePlaceholder(
        ReplacePlaceholder(
            ReplacePlaceholder(Template, "{{TABLES}}", tables_code(ms)),
            "{{MEASURES}}", measures_code(ms)),
        "{{RELATIONSHIPS}}", relationships_code(ms))

(***************************************************************************)
(* The ModelSpec documents given to generate_script                        *)
(***************************************************************************)
TableNames == {<<"A">>, <<"B">>}

\* all sequences over the set a of length at most n
SeqsUpTo(a, n) == UNION {[1..k -> a] : k \in 0..n}

\* table A has a column, table B has none
Te3Tables ==
    {[name |-> <<"A">>, columns |-> <<[name |-> <<"c">>, type |-> "Int64"]>>],
     [name |-> <<"B">>, columns |-> <<>>]}

Te3Measures == {<<>>, <<[name |-> <<"M">>, expression |-> <<"1">>]>>}

RelFields == {"from_table", "from_column", "to_table", "to_column"}

\* records with four endpoints
CompleteRels ==
    [from_table : TableNames, from_column : {<<"c">>},
     to_table : TableNames, to_column : {<<"d">>}]

\* a relationship record: complete, or with one endpoint null or empty, or
\* with every endpoint null
Relationships ==
    CompleteRels
    \cup {[r EXCEPT ![f] = v] : r \in CompleteRels, f \in RelFields, v \in {None, <<>>}}
    \cup {[f \in RelFields |-> None]}

Te3Idle == te3_ms = None /\ te3_script = None /\ te3_pc = "idle"

Te3Init ==
    /\ te3_ms \in [reportId : {<<"R">>},
                   tables : SeqsUpTo(Te3Tables, MaxTables),
                   measures : Te3Measures,
                   relationships : SeqsUpTo(Relationships, MaxRels)]
    /\ te3_script = None
    /\ te3_pc = "start"

generate_script ==
    /\ te3_pc = "start"
    /\ te3_script' = final_script(te3_ms)
    /\ te3_pc' = "done"
    /\ UNCHANGED <<te3_ms, san_vars, nt_vars, ga_vars, pq_vars, rj_vars, svc_vars, xt_vars>>

Te3Next == generate_script

\* the lines of the script that settle a relationship record, in order
RelationshipLines(script) ==
    SelectSeq(script, LAMBDA l : l.kind \in {"AddRelationship", "skip_invalid",
                                             "skip_table_not_found"})

\* the names of the tables of a ModelSpec
TableNamesOf(ms) == {ms.tables[i].name : i \in 1..Len(ms.tables)}

Endpoints(rel) == {rel.from_table, rel.from_column, rel.to_table, rel.to_column}

(* C1 as claimed: the script holds, for each relationship record in order,  *)
(* a creation statement if and only if the four endpoints are non-null and *)
(* both tables are tables of the ModelSpec, and a skip comment otherwise.  *)
C1_EmittedIffNonNull ==
    te3_pc = "done" =>
        LET ls == RelationshipLines(te3_script)
        IN  /\ Len(ls) = Len(te3_ms.relationships)
            /\ \A i \in 1..Len(ls) :
                   LET rel == te3_ms.relationships[i]
                   IN  ls[i].kind = "AddRelationship" <=>
                          /\ None \notin Endpoints(rel)
                          /\ rel.from_table \in TableNamesOf(te3_ms)
                          /\ rel.to_table \in TableNamesOf(te3_ms)

(* C1 as amended: the same with "non-null and non-empty" endpoints.         *)
C1_EmittedIffNonEmpty ==
    te3_pc = "done" =>
        LET ls == RelationshipLines(te3_script)
        IN  /\ Len(ls) = Len(te3_ms.relationships)
            /\ \A i \in 1..Len(ls) :
                   LET rel == te3_ms.relationships[i]
                   IN  ls[i].kind = "AddRelationship" <=>
                          /\ None \notin Endpoints(rel)
                          /\ <<>> \notin Endpoints(rel)
                          /\ rel.from_table \in TableNamesOf(te3_ms)
                          /\ rel.to_table \in TableNamesOf(te3_ms)

\* a relationship between two different tables of the ModelSpec was emitted
C1_Witness ==
    /\ te3_pc = "done"
    /\ \E i \in 1..Len(te3_script) :
           /\ te3_script[i].kind = "AddRelationship"
           /\ te3_script[i].args[1] # te3_script[i].args[3]

(***************************************************************************)
(* generate_pbi_artifacts_prod.py: generate_powerquery                     *)
(***************************************************************************)
\* the config keys a source type interpolates, in the order of its f-string
RequiredKeys(st) ==
    CASE st = "excel" -> <<"url", "sheet">>
      [] st = "sharepoint" -> <<"site", "file", "sheet">>
      [] st = "sql" -> <<"server", "database", "schema", "table">>
      [] st = "fabric" -> <<"workspace", "lakehouse", "table">>
      [] OTHER -> <<>>

\* the first key of ks that cfg lacks, "" when it has them all
RECURSIVE FirstMissing(_, _)
FirstMissing(ks, cfg) ==
    IF ks = <<>> THEN ""
    ELSE IF Head(ks) \notin DOMAIN cfg THEN Head(ks)
    ELSE FirstMissing(Tail(ks), cfg)

\* generate_powerquery that takes every unknown source type for excel
generate_powerquery_default_excel(st, cfg) ==
    LET ty == IF st \in {"sharepoint", "sql", "fabric"} THEN st ELSE "excel"
    IN  IF FirstMissing(RequiredKeys(ty), cfg) # ""
        THEN [kind |-> "KeyError", arg |-> FirstMissing(RequiredKeys(ty), cfg)]
        ELSE [kind |-> "text",
              arg |-> Line(ty, [i \in 1..Len(RequiredKeys(ty)) |-> cfg[RequiredKeys(ty)[i]]])]

\* the expression text returned, or the exception raised
generate_powerquery(st, cfg) ==
    IF st \in {"excel", "sharepoint", "sql", "fabric"}
    THEN IF FirstMissing(RequiredKeys(st), cfg) # ""
         THEN [kind |-> "KeyError", arg |-> FirstMissing(RequiredKeys(st), cfg)]
         ELSE [kind |-> "text",
               arg |-> Line(st, [i \in 1..Len(RequiredKeys(st)) |-> cfg[RequiredKeys(st)[i]]])]
    ELSE [kind |-> "ValueError", arg |-> <<"Unsupported sourceType: ", st>>]

(***************************************************************************)
(* generate_pbi_artifacts_prod.py: generate_artifacts                      *)
(***************************************************************************)
Path(dir, file) == [dir |-> dir, file |-> file]

\* write_json and write_text: the file at path p now holds c
WriteFile(files, p, c) == (p :> c) @@ files

ModelDirs == {"model", "dax", "visuals", "powerquery"}

\* str(x) inside an f-string
Format(x) == IF x = None THEN <<"N", "o", "n", "e">> ELSE x

\* the tables of the ModelSpec
model_tables(pm) ==
    [i \in 1..Len(pm.tables) |->
        [name |-> safe_id(pm.tables[i].name),
         columns |-> [j \in 1..Len(pm.tables[i].columns) |->
                         [name |-> pm.tables[i].columns[j].name,
                          type |-> normalize_type(pm.tables[i].columns[j].type)]]]]

\* model_spec that records the time of the run under a second key as well
model_spec_second_timestamp(pm, rid, at) ==
    [reportId |-> rid,
     generatedAt |-> at,
     builtAt |-> at,
     tables |-> model_tables(pm),
     relationships |-> pm.relationships]

model_spec(pm, rid, at) ==
    [reportId |-> rid,
     generatedAt |-> at,
     tables |-> model_tables(pm),
     relationships |-> pm.relationships]

visual_spec(pm, rid, at) ==
    [reportId |-> rid, generatedAt |-> at, pages |-> pm.worksheets]

\* the body of the file of measure m
dax_text(m) ==
    IF Truthy(m.expression) THEN m.expression
    ELSE <<"// TODO: Implement DAX for ">> \o Format(m.name)

dax_path_of(m) == Path("dax", safe_id(m.name) \o <<".dax">>)

ga_start ==
    /\ ga_pc = "start"
    /\ report_id' = safe_id(IF env_report_id = None
                            THEN <<"r", "e", "p", "o", "r", "t">>
                            ELSE env_report_id)
    /\ generated_at' = run
    /\ dirs' = dirs \cup {"."} \cup ModelDirs
    /\ ga_pc' = "modelspec"
    /\ UNCHANGED <<env_report_id, parsed_meta, source_type, source_config, run,
                   model_path, dax_files, visual_path, ga_ret, fs, written>>
    /\ UNCHANGED <<san_vars, nt_vars, te3_vars, pq_vars, rj_vars, svc_vars, xt_vars>>

ga_write_modelspec ==
    /\ ga_pc = "modelspec"
    /\ model_path' = Path("model", report_id \o <<"_modelspec.json">>)
    /\ fs' = WriteFile(fs, model_path', model_spec(parsed_meta, report_id, generated_at))
    /\ written' = Append(written, model_path')
    /\ ga_pc' = "dax"
    /\ UNCHANGED <<env_report_id, parsed_meta, source_type, source_config, run,
                   report_id, generated_at, dax_files, visual_path, ga_ret, dirs>>
    /\ UNCHANGED <<san_vars, nt_vars, te3_vars, pq_vars, rj_vars, svc_vars, xt_vars>>

\* one turn of the loop over the measures
ga_write_dax ==
    /\ ga_pc = "dax"
    /\ Len(dax_files) < Len(parsed_meta.measures)
    /\ LET m == parsed_meta.measures[Len(dax_files) + 1]
       IN  /\ fs' = WriteFile(fs, dax_path_of(m), dax_text(m))
           /\ written' = Append(written, dax_path_of(m))
           /\ dax_files' = Append(dax_files, dax_path_of(m))
    /\ UNCHANGED <<env_report_id, parsed_meta, source_type, source_config, run, ga_pc,
                   report_id, generated_at, model_path, visual_path, ga_ret, dirs>>
    /\ UNCHANGED <<san_vars, nt_vars, te3_vars, pq_vars, rj_vars, svc_vars, xt_vars>>

ga_write_visualspec ==
    /\ ga_pc = "dax"
    /\ Len(dax_files) = Len(parsed_meta.measures)
    /\ visual_path' = Path("visuals", report_id \o <<"_visual.json">>)
    /\ fs' = WriteFile(fs, visual_path', visual_spec(parsed_meta, report_id, generated_at))
    /\ written' = Append(written, visual_path')
    /\ ga_pc' = "powerquery"
    /\ UNCHANGED <<env_report_id, parsed_meta, source_type, source_config, run,
                   report_id, generated_at, model_path, dax_files, ga_ret, dirs>>
    /\ UNCHANGED <<san_vars, nt_vars, te3_vars, pq_vars, rj_vars, svc_vars, xt_vars>>

pq_path_of(rid) == Path("powerquery", rid \o <<"_source.m">>)

ga_write_powerquery ==
    /\ ga_pc = "powerquery"
    /\ generate_powerquery(source_type, source_config).kind = "text"
    /\ fs' = WriteFile(fs, pq_path_of(report_id),
                       generate_powerquery(source_type, source_config).arg)
    /\ written' = Append(written, pq_path_of(report_id))
    /\ ga_pc' = "manifest"
    /\ UNCHANGED <<env_report_id, parsed_meta, source_type, source_config, run,
                   report_id, generated_at, model_path, dax_files, visual_path,
                   ga_ret, dirs>>
    /\ UNCHANGED <<san_vars, nt_vars, te3_vars, pq_vars, rj_vars, svc_vars, xt_vars>>

\* generate_powerquery raises, and the exception leaves generate_artifacts
ga_raise ==
    /\ ga_pc = "powerquery"
    /\ generate_powerquery(source_type, source_config).kind # "text"
    /\ ga_ret' = generate_powerquery(source_type, source_config)
    /\ ga_pc' = "error"
    /\ UNCHANGED <<env_report_id, parsed_meta, source_type, source_config, run,
                   report_id, generated_at, model_path, dax_files, visual_path,
                   fs, dirs, written>>
    /\ UNCHANGED <<san_vars, nt_vars, te3_vars, pq_vars, rj_vars, svc_vars, xt_vars>>

manifest_path == Path(".", <<"artifact_manifest.json">>)

\* the manifest written as soon as the visual spec is, before the
\* data-access expression
ga_write_manifest_before_powerquery ==
    /\ ga_pc = "powerquery"
    /\ LET manifest == [reportId |-> report_id,
                        generatedAt |-> generated_at,
                        modelSpec |-> model_path,
                        daxFiles |-> dax_files,
                        visualSpec |-> visual_path,
                        powerQueryFiles |-> <<pq_path_of(report_id)>>]
       IN  /\ fs' = WriteFile(fs, manifest_path, manifest)
           /\ ga_ret' = [kind |-> "manifest", arg |-> manifest]
    /\ written' = Append(written, manifest_path)
    /\ ga_pc' = "done"
    /\ UNCHANGED <<env_report_id, parsed_meta, source_type, source_config, run,
                   report_id, generated_at, model_path, dax_files, visual_path, dirs>>
    /\ UNCHANGED <<san_vars, nt_vars, te3_vars, pq_vars, rj_vars, svc_vars, xt_vars>>

ga_write_manifest ==
    /\ ga_pc = "manifest"
    /\ LET manifest == [reportId |-> report_id,
                        generatedAt |-> generated_at,
                        modelSpec |-> model_path,
                        daxFiles |-> dax_files,
                        visualSpec |-> visual_path,
                        powerQueryFiles |-> <<pq_path_of(report_id)>>]
       IN  /\ fs' = WriteFile(fs, manifest_path, manifest)
           /\ ga_ret' = [kind |-> "manifest", arg |-> manifest]
    /\ written' = Append(written, manifest_path)
    /\ ga_pc' = "done"
    /\ UNCHANGED <<env_report_id, parsed_meta, source_type, source_config, run,
                   report_id, generated_at, model_path, dax_files, visual_path, dirs>>
    /\ UNCHANGED <<san_vars, nt_vars, te3_vars, pq_vars, rj_vars, svc_vars, xt_vars>>

generate_artifacts ==
    \/ ga_start
    \/ ga_write_modelspec
    \/ ga_write_dax
    \/ ga_write_visualspec
    \/ ga_write_powerquery
    \/ ga_raise
    \/ ga_write_manifest

(***************************************************************************)
(* The inputs of the artifact stage                                        *)
(***************************************************************************)
PmTableNames == {<<"A", " ", "B">>, <<"7">>}

PmColumns ==
    {[name |-> <<"c", " ", "d">>, type |-> None],
     [name |-> <<"c">>, type |-> <<"D", "A", "T", "E">>]}

PmTables == [name : PmTableNames, columns : SeqsUpTo(PmColumns, MaxCols)]

\* measures as the extractor yields them: a name or an expression may be
\* missing, never both; two measures may share a name
PmMeasures ==
    {[name |-> <<"M", " ", "N">>, expression |-> <<"1">>],
     [name |-> <<"M", "_", "N">>, expression |-> <<"2">>],
     [name |-> <<"M", "_", "N">>, expression |-> None],
     [name |-> None, expression |-> <<"1">>]}

ConfigKeys == {"url", "sheet", "site", "file", "server", "database", "schema",
               "table", "workspace", "lakehouse"}

\* the config holding the keys ks, each with a value of its own
ConfigOf(ks) == [k \in ks |-> <<"<", k, ">">>]

Sources ==
    {[type |-> "excel", config |-> ConfigOf({"url", "sheet"})],
     [type |-> "tableau", config |-> ConfigOf({"url", "sheet"})],
     [type |-> "sql", config |-> ConfigOf({"server", "database", "schema"})]}

\* the sequences over a of length at most n without a repeated element
Distinct(a, n) ==
    {q \in SeqsUpTo(a, n) : \A i, j \in 1..Len(q) : q[i] = q[j] => i = j}

NoPath == Path("", <<>>)

\* the process of generate_artifacts on its first line
GaStart(pm, src, rid) ==
    /\ env_report_id = rid
    /\ parsed_meta = pm
    /\ source_type = src.type
    /\ source_config = src.config
    /\ run = 1
    /\ ga_pc = "start"
    /\ report_id = None /\ generated_at = 0
    /\ model_path = NoPath /\ dax_files = <<>> /\ visual_path = NoPath
    /\ ga_ret = None
    /\ fs = <<>> /\ dirs = {} /\ written = <<>>

GaIdle ==
    /\ env_report_id = None /\ parsed_meta = None
    /\ source_type = "" /\ source_config = <<>>
    /\ run = 0 /\ ga_pc = "idle"
    /\ report_id = None /\ generated_at = 0
    /\ model_path = NoPath /\ dax_files = <<>> /\ visual_path = NoPath
    /\ ga_ret = None
    /\ fs = <<>> /\ dirs = {} /\ written = <<>>

(* C2: generate_artifacts is all-or-nothing: when it ends with an error    *)
(* the run has written no file, and when it returns its manifest the       *)
(* complete output set has been written.                                   *)
C2_AllOrNothing ==
    /\ ga_pc = "error" => written = <<>>
    /\ ga_pc = "done" =>
          LET out == {model_path, visual_path, pq_path_of(report_id), manifest_path}
                         \cup {dax_files[i] : i \in 1..Len(dax_files)}
          IN  /\ Len(dax_files) = Len(parsed_meta.measures)
              /\ out \subseteq DOMAIN fs
              /\ out = {written[i] : i \in 1..Len(written)}

(* C7: in the ModelSpec written by generate_artifacts every table name and *)
(* every column name is safe_id of the ParsedMetadata name.                *)
C7_NamesSanitized ==
    ga_pc \in {"dax", "powerquery", "manifest", "done", "error"} =>
        LET ms == fs[model_path]
            pm == parsed_meta
        IN  /\ Len(ms.tables) = Len(pm.tables)
            /\ \A i \in 1..Len(pm.tables) :
                  /\ ms.tables[i].name = safe_id(pm.tables[i].name)
                  /\ Len(ms.tables[i].columns) = Len(pm.tables[i].columns)
                  /\ \A j \in 1..Len(pm.tables[i].columns) :
                        ms.tables[i].columns[j].name
                            = safe_id(pm.tables[i].columns[j].name)

\* the measure files on disk
DaxFilesOnDisk == {p \in DOMAIN fs : p.dir = "dax"}

(* C10: once the measures are processed, there are as many measure files   *)
(* on disk as measures, each named by the sanitized measure name, and the  *)
(* file of each measure holds its expression verbatim, or a placeholder    *)
(* comment naming the measure when the expression is absent.               *)
C10_OneFilePerMeasure ==
    ga_pc \in {"powerquery", "manifest", "done", "error"} =>
        /\ Cardinality(DaxFilesOnDisk) = Len(parsed_meta.measures)
        /\ \A i \in 1..Len(parsed_meta.measures) :
              LET m == parsed_meta.measures[i]
                  p == Path("dax", safe_id(m.name) \o <<".dax">>)
              IN  /\ p \in DOMAIN fs
                  /\ IF m.expression # None /\ m.expression # <<>>
                     THEN fs[p] = m.expression
                     ELSE /\ Head(fs[p]) = "// TODO: Implement DAX for "
                          /\ Tail(fs[p]) = Format(m.name)

\* the files of a run in the order of the steps of generate_artifacts
StepOrder ==
    <<Path("model", report_id \o <<"_modelspec.json">>)>>
        \o [i \in 1..Len(parsed_meta.measures) |-> dax_path_of(parsed_meta.measures[i])]
        \o <<Path("visuals", report_id \o <<"_visual.json">>),
             Path("powerquery", report_id \o <<"_source.m">>),
             manifest_path>>

\* the paths a manifest lists
ListedPaths(manifest) ==
    {manifest.modelSpec, manifest.visualSpec}
        \cup {manifest.daxFiles[i] : i \in 1..Len(manifest.daxFiles)}
        \cup {manifest.powerQueryFiles[i] : i \in 1..Len(manifest.powerQueryFiles)}

(* C21: the files of a run of generate_artifacts are written in the order  *)
(* model spec, measure files, visual spec, data-access expression,         *)
(* manifest; and when the manifest is written every path it lists names a  *)
(* file this run wrote before it.                                          *)
C21_ManifestLast ==
    /\ Len(written) <= Len(StepOrder)
    /\ \A i \in 1..Len(written) : written[i] = StepOrder[i]
    /\ manifest_path \in DOMAIN fs =>
          /\ written[Len(written)] = manifest_path
          /\ ListedPaths(fs[manifest_path])
                \subseteq {written[i] : i \in 1..(Len(written) - 1)}

C21_Witness ==
    /\ ga_pc = "done"
    /\ manifest_path \in DOMAIN fs
    /\ Len(fs[manifest_path].daxFiles) = 2
    /\ Len(written) = 6

(***************************************************************************)
(* The authoring script of the ModelSpec a run of generate_artifacts left  *)
(***************************************************************************)
Te3Wait == te3_ms = None /\ te3_script = None /\ te3_pc = "wait"

\* generate_script reads the document at modelspec_path: ms = load_json(...)
load_modelspec ==
    /\ te3_pc = "wait"
    /\ ga_pc = "done"
    /\ te3_ms' = fs[model_path]
    /\ te3_pc' = "start"
    /\ UNCHANGED <<te3_script, san_vars, nt_vars, ga_vars, pq_vars, rj_vars, svc_vars, xt_vars>>

AuthoringNext == generate_artifacts \/ load_modelspec \/ generate_script

\* the measures the lines of a script find or create, in order
RECURSIVE MeasureLines(_)
MeasureLines(script) ==
    IF script = <<>> THEN <<>>
    ELSE (IF Head(script).kind \in {"find_measure", "if_null_add_measure",
                                    "else_set_expression"}
          THEN <<Head(script)>> ELSE <<>>) \o MeasureLines(Tail(script))

(* C11: the script generated from the ModelSpec that generate_artifacts    *)
(* built from a ParsedMetadata with at least one measure holds one         *)
(* find-or-create block per measure: a lookup by name, a creation when     *)
(* absent and an update of the expression otherwise.                       *)
C11_MeasuresReconstructed ==
    (te3_pc = "done" /\ ga_pc = "done" /\ Len(parsed_meta.measures) >= 1) =>
        LET ls == MeasureLines(te3_script)
        IN  /\ Len(ls) = 3 * Len(parsed_meta.measures)
            /\ \A i \in 1..Len(parsed_meta.measures) :
                  /\ ls[3 * i - 2].kind = "find_measure"
                  /\ ls[3 * i - 1].kind = "if_null_add_measure"
                  /\ ls[3 * i].kind = "else_set_expression"

(***************************************************************************)
(* Data-access expression harness: generate_powerquery on every source     *)
(* type tag and every set of config keys                                   *)
(***************************************************************************)
SourceTypes == {"excel", "sharepoint", "sql", "fabric", "tableau", "Excel", ""}

SupportedTypes == {"excel", "sharepoint", "sql", "fabric"}

PqIdle == pq_type = "" /\ pq_cfg = <<>> /\ pq_out = None /\ pq_pc = "idle"

PqInit ==
    /\ pq_type \in SourceTypes
    /\ pq_cfg \in {ConfigOf(ks) : ks \in SUBSET ConfigKeys}
    /\ pq_out = None
    /\ pq_pc = "start"

call_generate_powerquery ==
    /\ pq_pc = "start"
    /\ pq_out' = generate_powerquery(pq_type, pq_cfg)
    /\ pq_pc' = "done"
    /\ UNCHANGED <<pq_type, pq_cfg, san_vars, nt_vars, te3_vars, ga_vars, rj_vars, svc_vars, xt_vars>>

PqNext == call_generate_powerquery

(* C9: generate_powerquery returns an expression for excel, sharepoint,    *)
(* sql and fabric when the required config keys of the type are present,   *)
(* and raises the unsupported-source-type error, carrying the tag, exactly *)
(* when the tag is none of the four.                                       *)
C9_UnsupportedSourceType ==
    pq_pc = "done" =>
        LET required == {RequiredKeys(pq_type)[i] : i \in 1..Len(RequiredKeys(pq_type))}
        IN  /\ (pq_type \in SupportedTypes /\ required \subseteq DOMAIN pq_cfg)
                   => pq_out.kind = "text"
            /\ pq_out.kind = "ValueError" <=> pq_type \notin SupportedTypes
            /\ pq_out.kind = "ValueError" => pq_out.arg[Len(pq_out.arg)] = pq_type

\* an unsupported tag was rejected although the config holds every key
C9_Witness ==
    /\ pq_pc = "done"
    /\ pq_type = "Excel"
    /\ DOMAIN pq_cfg = ConfigKeys
    /\ pq_out.kind = "ValueError"

(***************************************************************************)
(* visualspec_to_reportjson.py: the layout projector                       *)
(***************************************************************************)
\* str(uuid.uuid4()): the k-th identifier a process draws, given the outcome
\* seed of its random source
Uuid(seed, k) == <<seed, k>>

\* make_visual that projects the qualified fields as well
make_visual_keeps_qualified(v, dataset_name, vis_id) ==
    LET fields == [i \in 1..Len(v.fields) |->
                      [Entity |-> dataset_name, Property |-> v.fields[i]]]
        visual_type == IF v.type = "Table" THEN "tableEx"
                       ELSE IF v.type = "PieChart" THEN "pieChart"
                       ELSE "tableEx"
    IN  [name |-> vis_id,
         visualType |-> visual_type,
         title |-> IF Truthy(v.title) THEN v.title ELSE <<>>,
         prototypeQuery |-> [From |-> <<[Name |-> "a", Entity |-> dataset_name]>>,
                             Select |-> fields]]

make_visual(v, dataset_name, vis_id) ==
    LET unqualified == SelectSeq(v.fields, LAMBDA f : ~Contains(f, <<".">>))
        fields == [i \in 1..Len(unqualified) |->
                      [Entity |-> dataset_name, Property |-> unqualified[i]]]
        visual_type == IF v.type = "Table" THEN "tableEx"
                       ELSE IF v.type = "PieChart" THEN "pieChart"
                       ELSE "tableEx"
    IN  [name |-> vis_id,
         visualType |-> visual_type,
         title |-> IF Truthy(v.title) THEN v.title ELSE <<>>,
         prototypeQuery |-> [From |-> <<[Name |-> "a", Entity |-> dataset_name]>>,
                             Select |-> fields]]

\* kept_visuals that also skips the visuals left without a projected field
kept_visuals_with_select(page) ==
    SelectSeq(page.visuals,
              LAMBDA v : SelectSeq(v.fields, LAMBDA f : ~Contains(f, <<".">>)) # <<>>)

\* the visuals of a page the loop does not skip
kept_visuals(page) == SelectSeq(page.visuals, LAMBDA v : v.fields # <<>>)

RECURSIVE uuid_calls_before(_, _)
\* the number of uuid4() calls made before the section of page p is begun
uuid_calls_before(pages, p) ==
    IF p = 1 THEN 0
    ELSE uuid_calls_before(pages, p - 1) + 1 + Len(kept_visuals(pages[p - 1]))

report_sections(vs, dataset_name, seed) ==
    [p \in 1..Len(vs.pages) |->
        LET k0 == uuid_calls_before(vs.pages, p)
            vis == kept_visuals(vs.pages[p])
        IN  [name |-> Uuid(seed, k0 + 1),
             displayName |-> vs.pages[p].name,
             visualContainers |->
                 [i \in 1..Len(vis) |->
                     make_visual(vis[i], dataset_name, Uuid(seed, k0 + 1 + i))]]]

report_json(vs, dataset_name, seed) ==
    [version |-> "1.13.0",
     config |-> [layoutOptimization |-> 1],
     sections |-> report_sections(vs, dataset_name, seed)]

\* --dataset
Dataset == <<"S", "a", "l", "e", "s">>

\* --out, as generate_report_layout sets it: LAYOUT_DIR / "<report_id>_report.json"
layout_path ==
    Path("layout", (IF env_report_id = None THEN <<>> ELSE env_report_id)
                       \o <<"_report.json">>)

generate_report_json ==
    /\ rj_pc = "wait"
    /\ ga_pc = "done"
    /\ \E seed \in 1..MaxUuid :
           fs' = WriteFile(fs, layout_path, report_json(fs[visual_path], Dataset, seed))
    /\ rj_pc' = "done"
    /\ UNCHANGED <<env_report_id, parsed_meta, source_type, source_config, run, ga_pc,
                   report_id, generated_at, model_path, dax_files, visual_path,
                   ga_ret, dirs, written, prev>>
    /\ UNCHANGED <<san_vars, nt_vars, te3_vars, pq_vars, svc_vars, xt_vars>>

\* the caller runs the pipeline again on the same input; prev records the
\* documents of the run that ended
rerun ==
    /\ rj_pc = "done"
    /\ run < MaxRuns
    /\ prev' = [modelspec |-> fs[model_path], layout |-> fs[layout_path]]
    /\ run' = run + 1
    /\ ga_pc' = "start"
    /\ rj_pc' = "wait"
    /\ report_id' = None /\ generated_at' = 0
    /\ model_path' = NoPath /\ dax_files' = <<>> /\ visual_path' = NoPath
    /\ ga_ret' = None
    /\ written' = <<>>
    /\ UNCHANGED <<env_report_id, parsed_meta, source_type, source_config, fs, dirs>>
    /\ UNCHANGED <<san_vars, nt_vars, te3_vars, pq_vars, svc_vars, xt_vars>>

RjIdle == rj_pc = "idle" /\ prev = None

RjWait == rj_pc = "wait" /\ prev = None

PipelineNext == generate_artifacts \/ generate_report_json \/ rerun

(***************************************************************************)
(* The visual specs given to the layout projector.  The extractor keeps    *)
(* one worksheet per name, so the pages of a document have distinct names: *)
(* the page at position i is named P<i>.                                   *)
(***************************************************************************)
Visuals ==
    {[type |-> "Table", title |-> None, fields |-> <<>>],
     [type |-> "PieChart", title |-> <<"T">>,
      fields |-> <<<<"g">>, <<"t", ".", "f">>, <<"f">>>>],
     [type |-> "bar", title |-> None, fields |-> <<<<"t", ".", "f">>>>]}

PageNumbers == <<"1", "2", "3", "4", "5", "6", "7", "8", "9">>

PagesOf(vss) == [i \in 1..Len(vss) |-> [name |-> <<"P", PageNumbers[i]>>, visuals |-> vss[i]]]

VisualSpecPages == {PagesOf(vss) : vss \in SeqsUpTo(SeqsUpTo(Visuals, MaxVisuals), MaxPages)}

\* the artifact stage has ended and left the visual spec with the pages ps
LayoutInit(ps) ==
    /\ env_report_id = <<"R", "1">>
    /\ parsed_meta = [tables |-> <<>>, relationships |-> <<>>, worksheets |-> ps,
                      measures |-> <<>>]
    /\ source_type = "" /\ source_config = <<>>
    /\ run = 1
    /\ ga_pc = "done"
    /\ report_id = <<"R", "1">> /\ generated_at = 1
    /\ model_path = NoPath /\ dax_files = <<>>
    /\ visual_path = Path("visuals", <<"R", "1", "_visual.json">>)
    /\ ga_ret = None
    /\ fs = WriteFile(<<>>, visual_path, visual_spec(parsed_meta, report_id, generated_at))
    /\ dirs = {"."} \cup ModelDirs
    /\ written = <<>>

\* the sections, in the state where the layout document is on disk
Sections == fs[layout_path].sections

(* C8: the layout document has exactly one section per page of the visual  *)
(* spec, in page order, also for a page none of whose visuals survive, and *)
(* the section of a page holds one visual container for each visual of the *)
(* page with at least one field, in order, and none for the others.        *)
C8_DropsOnlyEmptyVisuals ==
    rj_pc = "done" =>
        LET pages == fs[visual_path].pages
        IN  /\ Len(Sections) = Len(pages)
            /\ \A p \in 1..Len(pages) :
                  LET with == {i \in 1..Len(pages[p].visuals) :
                                  Len(pages[p].visuals[i].fields) >= 1}
                      cs == Sections[p].visualContainers
                  IN  /\ Sections[p].displayName = pages[p].name
                      /\ Len(cs) = Cardinality(with)
                      /\ \A k \in 1..Len(cs) :
                            \* the k-th container comes from the k-th visual with a field
                            \E i \in with :
                                /\ Cardinality({j \in with : j <= i}) = k
                                /\ cs[k].title = (IF pages[p].visuals[i].title = None
                                                  THEN <<>> ELSE pages[p].visuals[i].title)
                                /\ cs[k].visualType
                                       = (IF pages[p].visuals[i].type = "PieChart"
                                          THEN "pieChart" ELSE "tableEx")

\* a page whose visuals are all dropped kept its section, and a visual whose
\* only field is qualified kept its container
C8_Witness ==
    /\ rj_pc = "done"
    /\ \E p \in 1..Len(Sections) :
          /\ fs[visual_path].pages[p].visuals # <<>>
          /\ Sections[p].visualContainers = <<>>
    /\ \E p \in 1..Len(Sections) :
          \E k \in 1..Len(Sections[p].visualContainers) :
              Sections[p].visualContainers[k].prototypeQuery.Select = <<>>

(***************************************************************************)
(* Two runs of the pipeline on one input                                   *)
(***************************************************************************)
PipelineTables ==
    {<<>>, <<[name |-> <<"A", " ", "B">>,
              columns |-> <<[name |-> <<"c", " ", "d">>, type |-> <<"D", "A", "T", "E">>]>>]>>}

PipelineMeasures == {<<>>, <<[name |-> <<"M", " ", "N">>, expression |-> <<"1">>]>>}

PipelineWorksheets ==
    {<<>>,
     PagesOf(<<<<[type |-> "PieChart", title |-> <<"T">>,
                  fields |-> <<<<"f">>, <<"t", ".", "f">>>>]>>>>),
     PagesOf(<<<<[type |-> "Table", title |-> None, fields |-> <<>>]>>,
               <<[type |-> "bar", title |-> None, fields |-> <<<<"f">>>>],
                 [type |-> "Table", title |-> None, fields |-> <<<<"g">>>>]>>>>)}

PipelineSources ==
    {[type |-> "excel", config |-> ConfigOf({"url", "sheet"})],
     [type |-> "tableau", config |-> ConfigOf({"url", "sheet"})]}

\* a document without its generatedAt field
WithoutTimestamp(doc) == [doc EXCEPT !.generatedAt = 0]

\* a layout document without the generated names of its sections and visuals
WithoutNames(layout) ==
    [layout EXCEPT !.sections =
        [p \in 1..Len(layout.sections) |->
            [layout.sections[p] EXCEPT
                !.name = 0,
                !.visualContainers =
                    [i \in 1..Len(layout.sections[p].visualContainers) |->
                        [layout.sections[p].visualContainers[i] EXCEPT !.name = 0]]]]]

(* C3 as claimed: a second run of generate_artifacts and                   *)
(* generate_report_json on the same ParsedMetadata, source config and      *)
(* report identifier leaves the same ModelSpec and the same layout         *)
(* document as the first, the generatedAt field excepted.                  *)
C3_SameDocuments ==
    (run >= 2 /\ rj_pc = "done") =>
        /\ WithoutTimestamp(fs[model_path]) = WithoutTimestamp(prev.modelspec)
        /\ fs[layout_path] = prev.layout

(* C3 as amended: the same, the generatedAt field and the generated names  *)
(* (uuid4) of the sections and visual containers of the layout excepted.   *)
C3_SameDocumentsButNames ==
    (run >= 2 /\ rj_pc = "done") =>
        /\ WithoutTimestamp(fs[model_path]) = WithoutTimestamp(prev.modelspec)
        /\ WithoutNames(fs[layout_path]) = WithoutNames(prev.layout)

\* a second run ended whose documents hold tables and visuals, with another
\* timestamp and other generated names than the first
C3_Witness ==
    /\ run >= 2 /\ rj_pc = "done"
    /\ fs[model_path].tables # <<>>
    /\ fs[model_path].generatedAt # prev.modelspec.generatedAt
    /\ fs[layout_path].sections # <<>>
    /\ fs[layout_path] # prev.layout

(***************************************************************************)
(* generate_parsed_meta.py: the extraction routines, one call at a time.   *)
(* xt_in holds the arguments of the call, xt_out what it returned.         *)
(***************************************************************************)
XtIdle == xt_in = None /\ xt_out = None /\ xt_pc = "idle"

\* s.endswith(suffix)
EndsWith(s, suffix) ==
    Len(suffix) <= Len(s) /\ SubSeq(s, Len(s) - Len(suffix) + 1, Len(s)) = suffix

DotTwb == <<".", "t", "w", "b">>

DotTwbx == <<".", "t", "w", "b", "x">>

\* The bytes of a file or of an archive member: whether they decode as
\* UTF-8, what the XML parser makes of the text, and the member they are of.
\*   well_formed  a document
\*   repairable   malformed markup with a root element the parser recovers
\*   no_root      text in which the parser finds no element
\*   empty        the empty text
XmlClasses == {"well_formed", "repairable", "no_root", "empty"}

Bytes(utf8, xml, of) == [utf8 |-> utf8, xml |-> xml, of |-> of]

NoBytes == Bytes(FALSE, "", <<>>)

Returned(kind, arg) == [kind |-> kind, arg |-> arg]

\* f.read().decode('utf-8')
Decode(data) ==
    IF data.utf8 THEN Returned("text", data) ELSE Returned("UnicodeDecodeError", NoBytes)

\* the positions of the members of the archive named name
MembersNamed(members, name) == {i \in 1..Len(members) : members[i].name = name}

RECURSIVE read_preferred(_, _)
\* the loop over preferred_names: z.open(name) raises KeyError for a name
\* that is no member, and the loop goes on; NoBytes when the loop ends
read_preferred(members, preferred_names) ==
    IF preferred_names = <<>> THEN Returned("fallback", NoBytes)
    ELSE IF MembersNamed(members, Head(preferred_names)) = {}
         THEN read_preferred(members, Tail(preferred_names))
         ELSE LET i == CHOOSE i \in MembersNamed(members, Head(preferred_names)) : TRUE
              IN  Decode(members[i].data)

\* read_twb_from_twbx whose fallback compares the extension as written
read_twb_from_twbx_case_sensitive(members, preferred_names) ==
    LET preferred == IF Truthy(preferred_names) THEN preferred_names ELSE <<>>
        first == read_preferred(members, preferred)
        twb_candidates == {i \in 1..Len(members) : EndsWith(members[i].name, DotTwb)}
    IN  IF first.kind # "fallback" THEN first
        ELSE IF twb_candidates = {} THEN Returned("ValueError", NoBytes)
        ELSE LET i == CHOOSE i \in twb_candidates : \A j \in twb_candidates : i <= j
             IN  Decode(members[i].data)

read_twb_from_twbx(members, preferred_names) ==
    LET preferred == IF Truthy(preferred_names) THEN preferred_names ELSE <<>>
        first == read_preferred(members, preferred)
        twb_candidates == {i \in 1..Len(members) :
                              EndsWith(Lower(members[i].name), DotTwb)}
    IN  IF first.kind # "fallback" THEN first
        ELSE IF twb_candidates = {} THEN Returned("ValueError", NoBytes)
        ELSE LET i == CHOOSE i \in twb_candidates : \A j \in twb_candidates : i <= j
             IN  Decode(members[i].data)

\* the names of the members of an archive
MemberNames ==
    {<<"a">> \o DotTwb, <<"B", ".", "T", "W", "B">>, <<"d", ".", "c", "s", "v">>}

\* the members an archive may hold under a name
MembersOf(names) ==
    {[name |-> n, data |-> Bytes(u, "well_formed", n)] : n \in names, u \in BOOLEAN}

\* an archive is packed from a directory: its members have distinct names
Archives ==
    {ms \in SeqsUpTo(MembersOf(MemberNames), MaxMembers) :
        \A i, j \in 1..Len(ms) : ms[i].name = ms[j].name => i = j}

PreferredLists == {None} \cup SeqsUpTo(MemberNames, MaxPreferred)

ArchiveInit ==
    /\ xt_in \in [members : Archives, preferred_names : PreferredLists]
    /\ xt_out = None
    /\ xt_pc = "start"

call_read_twb_from_twbx ==
    /\ xt_pc = "start"
    /\ xt_out' = read_twb_from_twbx(xt_in.members, xt_in.preferred_names)
    /\ xt_pc' = "done"
    /\ UNCHANGED <<xt_in, san_vars, nt_vars, te3_vars, ga_vars, pq_vars, rj_vars, svc_vars>>

ArchiveNext == call_read_twb_from_twbx

\* the positions in the list p of the names that are members of ms
PreferredMembers(ms, p) ==
    {k \in 1..Len(p) : \E i \in 1..Len(ms) : ms[i].name = p[k]}

\* the positions of the members whose name ends in ".twb", whatever the case
TwbMembers(ms) ==
    {i \in 1..Len(ms) :
        LET n == ms[i].name
        IN  /\ Len(n) >= 4
            /\ n[Len(n) - 3] = "."
            /\ n[Len(n) - 2] \in {"t", "T"}
            /\ n[Len(n) - 1] \in {"w", "W"}
            /\ n[Len(n)] \in {"b", "B"}}

\* what reading the bytes d as text gives
ContentOf(d) == IF d.utf8 THEN "text" ELSE "UnicodeDecodeError"

(* C15: read_twb_from_twbx returns the content of the first name of the    *)
(* preferred list that is a member of the archive; when no preferred name  *)
(* is a member, the content of the first member in archive order whose     *)
(* name ends in ".twb" in any case; when there is no such member it fails  *)
(* with the not-found error.  Content that is not UTF-8 fails to decode.   *)
C15_PreferredThenFirstTwb ==
    xt_pc = "done" =>
        LET ms == xt_in.members
            p == IF xt_in.preferred_names = None THEN <<>> ELSE xt_in.preferred_names
        IN  IF PreferredMembers(ms, p) # {}
            THEN \E k \in PreferredMembers(ms, p), i \in 1..Len(ms) :
                    /\ \A l \in PreferredMembers(ms, p) : k <= l
                    /\ ms[i].name = p[k]
                    /\ xt_out.kind = ContentOf(ms[i].data)
                    /\ xt_out.kind = "text" => xt_out.arg.of = ms[i].name
            ELSE IF TwbMembers(ms) # {}
            THEN \E i \in TwbMembers(ms) :
                    /\ \A j \in TwbMembers(ms) : i <= j
                    /\ xt_out.kind = ContentOf(ms[i].data)
                    /\ xt_out.kind = "text" => xt_out.arg.of = ms[i].name
            ELSE xt_out.kind = "ValueError"

\* the call fell back on a member whose extension is in upper case, although
\* a member with the extension in lower case comes later and the preferred
\* list names no member
C15_Witness ==
    /\ xt_pc = "done"
    /\ xt_in.preferred_names # None /\ xt_in.preferred_names # <<>>
    /\ Len(xt_in.members) = 2
    /\ xt_in.members[2].name = <<"a">> \o DotTwb
    /\ xt_out.kind = "text"
    /\ xt_out.arg.of = <<"B", ".", "T", "W", "B">>

(***************************************************************************)
(* extract_datasources: one action per turn of the loop over ds_nodes      *)
(***************************************************************************)
RECURSIVE Or(_)
\* a or b or ...: the first truthy value, else the last one
Or(vals) ==
    IF Len(vals) = 1 \/ Truthy(Head(vals)) THEN Head(vals) ELSE Or(Tail(vals))

\* the attributes an id is taken from, in the order of the code
DsAttrs == <<"name", "caption", "formula", "id", "datasource-id", "class">>

\* f"datasource_{n}"
Synthesized(n) == <<"datasource_", PageNumbers[n]>>

\* the loop body on the node ds that keeps every node, seen or not
ds_scan_node_without_seen(st, ds) ==
    LET explicit == Or([k \in 1..Len(DsAttrs) |-> ds.attrs[DsAttrs[k]]])
        ds_id == IF Truthy(explicit) THEN explicit
                 ELSE Synthesized(Len(st.datasources) + 1)
    IN  [datasources |->
             Append(st.datasources,
                    [id |-> ds_id,
                     name |-> Or(<<ds.attrs["caption"], ds.attrs["name"]>>),
                     connection_type |-> ds.conn_class]),
         seen_ids |-> st.seen_ids \cup {ds_id}]

\* the loop body on the node ds, from the lists st of the turns before
ds_scan_node(st, ds) ==
    LET explicit == Or([k \in 1..Len(DsAttrs) |-> ds.attrs[DsAttrs[k]]])
        ds_id == IF Truthy(explicit) THEN explicit
                 ELSE Synthesized(Len(st.datasources) + 1)
    IN  IF ds_id \in st.seen_ids THEN st
        ELSE [datasources |->
                  Append(st.datasources,
                         [id |-> ds_id,
                          name |-> Or(<<ds.attrs["caption"], ds.attrs["name"]>>),
                          connection_type |-> ds.conn_class]),
              seen_ids |-> st.seen_ids \cup {ds_id}]

\* a datasource node: the attributes given, the others absent, and the class
\* of its first connection node
DsNode(given, conn_class) ==
    [attrs |-> [a \in {DsAttrs[k] : k \in 1..Len(DsAttrs)} |->
                   IF a \in DOMAIN given THEN given[a] ELSE None],
     conn_class |-> conn_class]

DsNodes ==
    {DsNode(<<>>, None),
     DsNode([name |-> <<"x">>], None),
     DsNode([name |-> <<>>, caption |-> <<"x">>], <<"e", "x", "c", "e", "l">>),
     DsNode([name |-> <<"y">>, caption |-> <<"x">>], None),
     DsNode([class |-> <<"c">>], None),
     DsNode([name |-> Synthesized(2)], None),
     DsNode([id |-> <<"x">>], <<"s", "q", "l">>)}

DatasourcesInit ==
    /\ xt_in \in [ds_nodes : SeqsUpTo(DsNodes, MaxNodes)]
    /\ xt_out = [datasources |-> <<>>, seen_ids |-> {}, next |-> 1]
    /\ xt_pc = "scan"

ds_scan ==
    /\ xt_pc = "scan"
    /\ xt_out.next <= Len(xt_in.ds_nodes)
    /\ LET st == ds_scan_node([datasources |-> xt_out.datasources,
                               seen_ids |-> xt_out.seen_ids],
                              xt_in.ds_nodes[xt_out.next])
       IN  xt_out' = [datasources |-> st.datasources, seen_ids |-> st.seen_ids,
                      next |-> xt_out.next + 1]
    /\ UNCHANGED <<xt_in, xt_pc>>
    /\ UNCHANGED <<san_vars, nt_vars, te3_vars, ga_vars, pq_vars, rj_vars, svc_vars>>

ds_return ==
    /\ xt_pc = "scan"
    /\ xt_out.next > Len(xt_in.ds_nodes)
    /\ xt_pc' = "done"
    /\ UNCHANGED <<xt_in, xt_out>>
    /\ UNCHANGED <<san_vars, nt_vars, te3_vars, ga_vars, pq_vars, rj_vars, svc_vars>>

extract_datasources == ds_scan \/ ds_return

\* the node has none of the identifying attributes
Unidentified(ds) == \A k \in 1..Len(DsAttrs) : ds.attrs[DsAttrs[k]] = None

\* the id the node carries when the scan comes to it
IdCarried(ds) ==
    LET explicit == {k \in 1..Len(DsAttrs) : Truthy(ds.attrs[DsAttrs[k]])}
    IN  IF explicit = {} THEN Synthesized(Len(xt_out.datasources) + 1)
        ELSE ds.attrs[DsAttrs[CHOOSE k \in explicit : \A l \in explicit : k <= l]]

\* a turn of the loop is taken on the node ds
Scans(ds) ==
    /\ xt_pc = "scan" /\ xt_out.next <= Len(xt_in.ds_nodes)
    /\ ds = xt_in.ds_nodes[xt_out.next]
    /\ xt_out'.next = xt_out.next + 1

(* C16: the turn of the loop on a node with none of the identifying        *)
(* attributes adds one record to the output, and the id of the record is   *)
(* the synthesized positional id datasource_<n>.                           *)
C16_UnidentifiedNodeKept ==
    [][\A ds \in DsNodes :
          (Scans(ds) /\ Unidentified(ds)) =>
              /\ Len(xt_out'.datasources) = Len(xt_out.datasources) + 1
              /\ xt_out'.datasources[Len(xt_out'.datasources)].id
                     = Synthesized(Len(xt_out'.datasources))]_vars

(* C17: the ids of the output are pairwise distinct; the turn of the loop  *)
(* on a node whose id has been seen adds no record and changes none, and   *)
(* the turn on a node with a new id appends the record of that node, so    *)
(* the record of an id comes from the first node that carries it.          *)
C17_FirstNodeOfEachId ==
    [][\A ds \in DsNodes :
          Scans(ds) =>
              LET before == xt_out.datasources
                  after == xt_out'.datasources
              IN  /\ \A i, j \in 1..Len(after) : after[i].id = after[j].id => i = j
                  /\ SubSeq(after, 1, Len(before)) = before
                  /\ IF \E i \in 1..Len(before) : before[i].id = IdCarried(ds)
                     THEN after = before
                     ELSE after = Append(before,
                              [id |-> IdCarried(ds),
                               name |-> IF Truthy(ds.attrs["caption"])
                                        THEN ds.attrs["caption"] ELSE ds.attrs["name"],
                               connection_type |-> ds.conn_class])]_vars

\* the scan ended, a node whose id had been seen was passed over, and the
\* record of that id is the one of the earlier node
C17_Witness ==
    /\ xt_pc = "done"
    /\ Len(xt_in.ds_nodes) = 3
    /\ Len(xt_out.datasources) = 2
    /\ xt_in.ds_nodes[1].attrs["id"] = <<"x">>
    /\ xt_in.ds_nodes[2].attrs["caption"] = <<"x">>
    /\ xt_out.datasources[1].connection_type = <<"s", "q", "l">>

(***************************************************************************)
(* extract_tables_and_columns.  A column node is its attributes, its text, *)
(* its ancestor datasource elements in document order (the outermost       *)
(* first, as the ancestor axis yields them) and the explicit table element *)
(* it lies in, 0 for none.  The dict of tables is the list of its values   *)
(* in insertion order.                                                     *)
(***************************************************************************)
unnamed_table == <<"_unnamed">>

ColAttrs == {"table", "caption", "name", "column-name", "datatype", "type", "data-type"}

ColNode(given, text, ancestors, parent_table) ==
    [attrs |-> [a \in ColAttrs |-> IF a \in DOMAIN given THEN given[a] ELSE None],
     text |-> text, ancestors |-> ancestors, parent_table |-> parent_table]

\* text_of(node): (node.text or "").strip()
text_of(node) == IF node.text = None THEN <<>> ELSE Strip(node.text)

\* tables[key]["columns"].append(column), the table made first when new
AddColumn(tables, key, column) ==
    IF \E i \in 1..Len(tables) : tables[i].name = key
    THEN [i \in 1..Len(tables) |->
             IF tables[i].name = key
             THEN [tables[i] EXCEPT !.columns = Append(@, column)]
             ELSE tables[i]]
    ELSE Append(tables, [name |-> key, columns |-> <<column>>])

\* table_key of the first loop
table_key_of(col) ==
    LET parent_ds == col.ancestors
        table_name == IF parent_ds # <<>>
                      THEN Or(<<col.attrs["table"], parent_ds[1].name, parent_ds[1].caption>>)
                      ELSE None
    IN  IF Truthy(table_name) THEN table_name ELSE unnamed_table

\* col_name of the first loop
col_name_of(col) ==
    Or(<<col.attrs["caption"], col.attrs["name"], col.attrs["column-name"], text_of(col)>>)

RECURSIVE scan_columns(_, _)
\* the first loop, over the column-like nodes
scan_columns(tables, column_nodes) ==
    IF column_nodes = <<>> THEN tables
    ELSE LET col == Head(column_nodes)
             col_type == Or(<<col.attrs["datatype"], col.attrs["type"], col.attrs["data-type"]>>)
         IN  IF ~Truthy(col_name_of(col)) THEN scan_columns(tables, Tail(column_nodes))
             ELSE scan_columns(AddColumn(tables, table_key_of(col),
                                         [name |-> col_name_of(col), type |-> col_type]),
                               Tail(column_nodes))

RECURSIVE add_table_columns(_, _, _)
\* the inner loop of the second loop: the column elements under the table
add_table_columns(tables, tname, cs) ==
    IF cs = <<>> THEN tables
    ELSE LET c == Head(cs)
             cname == Or(<<c.attrs["name"], c.attrs["caption"], text_of(c)>>)
             ctype == Or(<<c.attrs["datatype"], c.attrs["type"]>>)
         IN  add_table_columns(IF Truthy(cname)
                               THEN AddColumn(tables, tname, [name |-> cname, type |-> ctype])
                               ELSE tables,
                               tname, Tail(cs))

RECURSIVE scan_tables(_, _, _, _)
\* the second loop, over the explicit table elements from the k-th on
scan_tables(tables, explicit_tables, column_nodes, k) ==
    IF k > Len(explicit_tables) THEN tables
    ELSE LET t == explicit_tables[k]
             tname == Or(<<t.name, t.caption>>)
             Under(c) == c.parent_table = k
             made == IF \E i \in 1..Len(tables) : tables[i].name = tname
                     THEN tables ELSE Append(tables, [name |-> tname, columns |-> <<>>])
         IN  IF ~Truthy(tname) THEN scan_tables(tables, explicit_tables, column_nodes, k + 1)
             ELSE scan_tables(add_table_columns(made, tname, SelectSeq(column_nodes, Under)),
                              explicit_tables, column_nodes, k + 1)

extract_tables_and_columns(column_nodes, explicit_tables) ==
    scan_tables(scan_columns(<<>>, column_nodes), explicit_tables, column_nodes, 1)

Datasource(name, caption) == [name |-> name, caption |-> caption]

\* the column nodes of a workbook
ColNodes ==
    {ColNode([name |-> <<"a">>, table |-> <<"T">>], None, <<Datasource(<<"D">>, None)>>, 0),
     ColNode([name |-> <<"a">>, datatype |-> <<"i", "n", "t">>], None,
             <<Datasource(<<"D">>, None)>>, 1),
     ColNode([name |-> <<"b">>, table |-> <<"T">>], None, <<>>, 0),
     ColNode([caption |-> <<"b">>], None,
             <<Datasource(<<"D">>, None), Datasource(<<"E">>, None)>>, 0),
     ColNode(<<>>, None, <<Datasource(<<"D">>, None)>>, 0),
     ColNode(<<>>, <<" ", "c">>, <<Datasource(None, <<"C">>)>>, 0),
     ColNode([name |-> <<"c">>], None, <<>>, 0),
     ColNode([name |-> <<"c">>], None, <<Datasource(None, None)>>, 0)}

\* the explicit table elements of a workbook
ExplicitTables == {<<>>, <<[name |-> <<"T">>, caption |-> None]>>}

ColumnsInit ==
    /\ xt_in \in {in \in [column_nodes : SeqsUpTo(ColNodes, MaxColumnNodes),
                         explicit_tables : ExplicitTables] :
                     \A i \in 1..Len(in.column_nodes) :
                         in.column_nodes[i].parent_table <= Len(in.explicit_tables)}
    /\ xt_out = None
    /\ xt_pc = "start"

call_extract_tables_and_columns ==
    /\ xt_pc = "start"
    /\ xt_out' = extract_tables_and_columns(xt_in.column_nodes, xt_in.explicit_tables)
    /\ xt_pc' = "done"
    /\ UNCHANGED <<xt_in, san_vars, nt_vars, te3_vars, ga_vars, pq_vars, rj_vars, svc_vars>>

ColumnsNext == call_extract_tables_and_columns

\* the name the column node resolves to, None when it has none
ResolvedName(col) ==
    IF Truthy(col.attrs["caption"]) THEN col.attrs["caption"]
    ELSE IF Truthy(col.attrs["name"]) THEN col.attrs["name"]
    ELSE IF Truthy(col.attrs["column-name"]) THEN col.attrs["column-name"]
    ELSE IF col.text # None /\ Strip(col.text) # <<>> THEN Strip(col.text)
    ELSE None

\* the owner of the column node: its table reference, else the name or
\* caption of the nearest ancestor datasource, else the sentinel
OwnerOf(col) ==
    LET nearest == col.ancestors[Len(col.ancestors)]
    IN  IF Truthy(col.attrs["table"]) THEN col.attrs["table"]
        ELSE IF col.ancestors # <<>> /\ Truthy(nearest.name) THEN nearest.name
        ELSE IF col.ancestors # <<>> /\ Truthy(nearest.caption) THEN nearest.caption
        ELSE unnamed_table

(* C18: every column node with a resolvable name is recorded under the     *)
(* table named by its table-reference attribute when it has one, with or   *)
(* without an ancestor datasource, otherwise under the name or caption of  *)
(* its nearest ancestor datasource, otherwise under "_unnamed".            *)
C18_OwnershipInference ==
    xt_pc = "done" =>
        \A i \in 1..Len(xt_in.column_nodes) :
            LET col == xt_in.column_nodes[i]
            IN  ResolvedName(col) # None =>
                    \E t \in 1..Len(xt_out) :
                        /\ xt_out[t].name = OwnerOf(col)
                        /\ \E c \in 1..Len(xt_out[t].columns) :
                               xt_out[t].columns[c].name = ResolvedName(col)

RECURSIVE ColumnRecords(_)
\* the number of column records of the tables
ColumnRecords(tables) ==
    IF tables = <<>> THEN 0
    ELSE Len(Head(tables).columns) + ColumnRecords(Tail(tables))

(* C25: extract_tables_and_columns records each column node at most once:  *)
(* the tables it returns hold no more column records than the tree has     *)
(* column-like nodes.                                                      *)
C25_EachNodeRecordedOnce ==
    xt_pc = "done" => ColumnRecords(xt_out) <= Len(xt_in.column_nodes)

(***************************************************************************)
(* extract_calculated_fields_and_measures.  A calculation node is its      *)
(* attributes, its text and the texts of its nested formula, expression    *)
(* and calculation elements.                                               *)
(***************************************************************************)
CalcNode(caption, name, text, nested) ==
    [caption |-> caption, name |-> name, text |-> text, nested |-> nested]

\* cn.text and cn.text.strip()
HasText(t) == t # None /\ Strip(t) # <<>>

\* the name of the candidate; the nodes carry no field-name attribute
calc_name(cn) == Or(<<cn.caption, cn.name, None>>)

\* the expression of the candidate: its own text, else the text of the
\* first nested element that has one, else None
calc_expr(cn) ==
    IF HasText(cn.text) THEN Strip(cn.text)
    ELSE LET with == {k \in 1..Len(cn.nested) : HasText(cn.nested[k])}
         IN  IF with = {} THEN None
             ELSE Strip(cn.nested[CHOOSE k \in with : \A l \in with : k <= l])

\* (name or "") + "|" + (expr or "")
calc_key(name, expr) ==
    (IF Truthy(name) THEN name ELSE <<>>) \o <<"|">>
        \o (IF Truthy(expr) THEN expr ELSE <<>>)

RECURSIVE scan_calcs(_, _, _)
\* the loop over calc_nodes, from the results and the keys seen so far
scan_calcs(results, seen, calc_nodes) ==
    IF calc_nodes = <<>> THEN results
    ELSE LET cn == Head(calc_nodes)
             name == calc_name(cn)
             expr == calc_expr(cn)
             key == calc_key(name, expr)
         IN  IF (~Truthy(name) /\ ~Truthy(expr)) \/ key \in seen
             THEN scan_calcs(results, seen, Tail(calc_nodes))
             ELSE scan_calcs(Append(results, [name |-> name, expression |-> expr]),
                             seen \cup {key}, Tail(calc_nodes))

extract_calculated_fields_and_measures(calc_nodes) == scan_calcs(<<>>, {}, calc_nodes)

\* the calculation nodes of a workbook
CalcNodes ==
    {CalcNode(<<"a", "|", "b">>, None, <<"c">>, <<>>),
     CalcNode(None, <<"a">>, <<" ", "b", "|", "c">>, <<>>),
     CalcNode(<<"a">>, <<"z">>, <<"c">>, <<>>),
     CalcNode(None, None, None, <<<<" ">>, <<"c">>>>),
     CalcNode(None, None, <<" ">>, <<>>),
     CalcNode(None, <<"a">>, None, <<>>)}

CalcsInit ==
    /\ xt_in \in [calc_nodes : SeqsUpTo(CalcNodes, MaxCandidates)]
    /\ xt_out = None
    /\ xt_pc = "start"

call_extract_calculated_fields_and_measures ==
    /\ xt_pc = "start"
    /\ xt_out' = extract_calculated_fields_and_measures(xt_in.calc_nodes)
    /\ xt_pc' = "done"
    /\ UNCHANGED <<xt_in, san_vars, nt_vars, te3_vars, ga_vars, pq_vars, rj_vars, svc_vars>>

CalcsNext == call_extract_calculated_fields_and_measures

\* the (name, expression) pair of the candidate
PairOf(cn) == [name |-> calc_name(cn), expression |-> calc_expr(cn)]

\* the candidates with a name or an expression
Named(calc_nodes) ==
    {i \in 1..Len(calc_nodes) :
        Truthy(calc_name(calc_nodes[i])) \/ Truthy(calc_expr(calc_nodes[i]))}

(* C19: the output holds exactly one record for each distinct              *)
(* (name, expression) pair among the candidates with a name or an          *)
(* expression, in the order of the first occurrences; candidates with      *)
(* neither are discarded and candidates with different pairs are never     *)
(* merged.                                                                 *)
C19_OneRecordPerPair ==
    xt_pc = "done" =>
        LET cs == xt_in.calc_nodes
            first == {i \in Named(cs) : \A j \in Named(cs) : j < i => PairOf(cs[j]) # PairOf(cs[i])}
        IN  /\ Len(xt_out) = Cardinality(first)
            /\ \A i \in first :
                  xt_out[Cardinality({j \in first : j <= i})] = PairOf(cs[i])

(***************************************************************************)
(* parse_twbx_or_twb: the extraction stage from the input file to the      *)
(* parsed-metadata document                                                *)
(***************************************************************************)
\* parse_xml_string: etree.fromstring with a recovering parser raises on
\* the empty text, returns None for a text without an element, and returns
\* the root of the tree otherwise
parse_xml_string(data) ==
    CASE data.xml \in {"well_formed", "repairable"} -> Returned("tree", data)
      [] data.xml = "no_root" -> Returned("None", NoBytes)
      [] data.xml = "empty" -> Returned("XMLSyntaxError", NoBytes)

\* the try block that reads the workbook
read_workbook(in) ==
    IF EndsWith(Lower(in.input_path), DotTwbx)
    THEN IF in.is_zip THEN read_twb_from_twbx(in.members, in.prefer_twb_names)
         ELSE Returned("BadZipFile", NoBytes)
    ELSE IF EndsWith(Lower(in.input_path), DotTwb) THEN Decode(in.data)
    ELSE Returned("ValueError", NoBytes)

\* parse_twbx_or_twb that makes the output directory before it reads the
\* workbook
parse_twbx_or_twb_outdir_first(in) ==
    LET xml_text == read_workbook(in)
        root == parse_xml_string(xml_text.arg)
    IN  IF ~in.isfile THEN [rc |-> 2, output |-> in.output, outdir |-> in.outdir]
        ELSE IF xml_text.kind # "text"
        THEN [rc |-> 3, output |-> in.output, outdir |-> "present"]
        ELSE IF root.kind = "XMLSyntaxError"
        THEN [rc |-> 4, output |-> in.output, outdir |-> "present"]
        ELSE IF root.kind = "None" \/ ~in.writable
        THEN [rc |-> 5, output |-> in.output, outdir |-> "present"]
        ELSE [rc |-> 0, output |-> "new", outdir |-> "present"]

\* the code returned, and the output file and its directory afterwards;
\* build_parsed_meta_from_tree raises AttributeError on the root None,
\* os.makedirs makes the directory of the output when it is absent, and
\* write_json_file raises OSError when the output cannot be opened
parse_twbx_or_twb(in) ==
    LET xml_text == read_workbook(in)
        root == parse_xml_string(xml_text.arg)
    IN  IF ~in.isfile THEN [rc |-> 2, output |-> in.output, outdir |-> in.outdir]
        ELSE IF xml_text.kind # "text"
        THEN [rc |-> 3, output |-> in.output, outdir |-> in.outdir]
        ELSE IF root.kind = "XMLSyntaxError"
        THEN [rc |-> 4, output |-> in.output, outdir |-> in.outdir]
        ELSE IF root.kind = "None"
        THEN [rc |-> 5, output |-> in.output, outdir |-> in.outdir]
        ELSE IF ~in.writable
        THEN [rc |-> 5, output |-> in.output, outdir |-> "present"]
        ELSE [rc |-> 0, output |-> "new", outdir |-> "present"]

\* the contents a workbook definition may have
Definitions(of) ==
    {Bytes(TRUE, x, of) : x \in XmlClasses} \cup {Bytes(FALSE, "well_formed", of)}

ParseArchives ==
    LET twb == <<"a">> \o DotTwb
        csv == <<"d", ".", "c", "s", "v">>
        members == {[name |-> twb, data |-> d] : d \in Definitions(twb)}
                       \cup {[name |-> csv, data |-> Bytes(TRUE, "no_root", csv)]}
    IN  {ms \in SeqsUpTo(members, MaxMembers) :
            \A i, j \in 1..Len(ms) : ms[i].name = ms[j].name => i = j}

InputFile(path, isfile, is_zip, members, data) ==
    [input_path |-> path, isfile |-> isfile, is_zip |-> is_zip,
     members |-> members, data |-> data]

\* the file at input_path: none, an archive or not under an archive name,
\* a definition under a definition name, a file of another extension
InputFiles ==
    LET twb == <<"w">> \o DotTwb
    IN  {InputFile(twb, FALSE, FALSE, <<>>, NoBytes)}
        \cup {InputFile(tx, TRUE, FALSE, <<>>, NoBytes) :
                 tx \in {<<"w">> \o DotTwbx, <<"W", ".", "T", "W", "B", "X">>}}
        \cup {InputFile(tx, TRUE, TRUE, ms, NoBytes) :
                 tx \in {<<"w">> \o DotTwbx, <<"W", ".", "T", "W", "B", "X">>},
                 ms \in ParseArchives}
        \cup {InputFile(twb, TRUE, FALSE, <<>>, d) : d \in Definitions(twb)}
        \cup {InputFile(<<"w", ".", "t", "x", "t">>, TRUE, FALSE, <<>>,
                        Bytes(TRUE, "well_formed", <<"w">>))}

\* the output path before the call: its directory absent, its directory
\* present without the file, the file of an earlier call
OutputPaths ==
    {[output |-> "absent", outdir |-> "absent"],
     [output |-> "absent", outdir |-> "present"],
     [output |-> "old", outdir |-> "present"]}

ParseInit ==
    /\ \E f \in InputFiles, w \in BOOLEAN, o \in OutputPaths,
          pn \in {None, <<<<"d", ".", "c", "s", "v">>>>} :
           xt_in = [input_path |-> f.input_path, isfile |-> f.isfile, is_zip |-> f.is_zip,
                    members |-> f.members, data |-> f.data,
                    prefer_twb_names |-> pn, writable |-> w,
                    output |-> o.output, outdir |-> o.outdir]
    /\ xt_out = None
    /\ xt_pc = "start"

call_parse_twbx_or_twb ==
    /\ xt_pc = "start"
    /\ xt_out' = parse_twbx_or_twb(xt_in)
    /\ xt_pc' = "done"
    /\ UNCHANGED <<xt_in, san_vars, nt_vars, te3_vars, ga_vars, pq_vars, rj_vars, svc_vars>>

ParseNext == call_parse_twbx_or_twb

\* the text of the workbook definition, when the input file yields one
DefinitionOf(in) ==
    IF in.is_zip THEN read_twb_from_twbx(in.members, in.prefer_twb_names).arg ELSE in.data

(* C13: parse_twbx_or_twb returns 0 exactly when the parsed-metadata       *)
(* document has been written, and otherwise 2 for a missing input file, 3  *)
(* for a workbook read failure (unreadable archive, no definition member,  *)
(* decode failure, wrong extension), 4 for an XML parse failure, 5 for an  *)
(* extraction or write failure, the first failing class in that order      *)
(* giving the code.                                                        *)
C13_ExitCodes ==
    xt_pc = "done" =>
        LET in == xt_in
            ext == Lower(in.input_path)
            archive == EndsWith(ext, DotTwbx)
            bare == ~archive /\ EndsWith(ext, DotTwb)
            read_fails ==
                \/ ~archive /\ ~bare
                \/ archive /\ ~in.is_zip
                \/ archive /\ in.is_zip
                       /\ read_twb_from_twbx(in.members, in.prefer_twb_names).kind # "text"
                \/ bare /\ ~in.data.utf8
            xml_fails == DefinitionOf(in).xml \in {"no_root", "empty"}
            expected == IF ~in.isfile THEN 2
                        ELSE IF read_fails THEN 3
                        ELSE IF xml_fails THEN 4
                        ELSE IF ~in.writable THEN 5
                        ELSE 0
        IN  /\ xt_out.rc = 0 <=> xt_out.output = "new"
            /\ xt_out.rc = expected

(* C26: when parse_twbx_or_twb returns 2, 3 or 4 the output file and its   *)
(* directory are as they were before the call: nothing is created or       *)
(* modified before the tree has been parsed.                               *)
C26_OutputUntouched ==
    (xt_pc = "done" /\ xt_out.rc \in {2, 3, 4}) =>
        /\ xt_out.output = xt_in.output
        /\ xt_out.outdir = xt_in.outdir

\* an XML parse failure with the directory of the output absent
C26_Witness ==
    /\ xt_pc = "done"
    /\ xt_out.rc = 4
    /\ xt_in.outdir = "absent"
    /\ xt_out.outdir = "absent"

(***************************************************************************)
(* The services behind the routers.  Every run of the pipeline calls the   *)
(* handlers in order (upload and parse, artifacts, authoring script) for   *)
(* its own report_id; the runs share the work directory.  The container    *)
(* of the object storage mirrors the work directory, every handler         *)
(* uploading what it wrote under the same name, so one map stands for      *)
(* both.  A file is recorded by the run that wrote it and, for a           *)
(* ModelSpec or a script, by the reportId it carries.                      *)
(***************************************************************************)
Runs == 1..MaxProcs

SvcPath(area, sub, file) == [area |-> area, sub |-> sub, file |-> file]

NoSvcPath == SvcPath("", <<>>, <<>>)

Doc(writer, reportId) == [writer |-> writer, reportId |-> reportId]

\* UPLOAD_DIR / file.filename
upload_path(p) == SvcPath("uploads", <<>>, svc_file[p])

\* PARSED_DIR / f"{report_id}_parsed_meta.json"
parsed_path(p) == SvcPath("parsed", <<>>, svc_rid[p] \o <<"_parsed_meta.json">>)

\* ARTIFACTS_DIR / report_id / "model" / f"{safe_id(REPORT_ID)}_modelspec.json"
modelspec_path(p) ==
    SvcPath("artifacts/model", svc_rid[p], safe_id(svc_rid[p]) \o <<"_modelspec.json">>)

\* the path the router asks for: artifacts/{report_id}/model/{report_id}_modelspec.json
canonical_modelspec_path(p) ==
    SvcPath("artifacts/model", svc_rid[p], svc_rid[p] \o <<"_modelspec.json">>)

\* out_file of generate_script: TE3_DIR / f"TE3_apply_{reportId}.csx"
script_path(reportId) == SvcPath("te3", <<>>, <<"TE3_apply_">> \o reportId \o <<".csx">>)

IsPrefix(a, b) == Len(a) <= Len(b) /\ SubSeq(b, 1, Len(a)) = a

\* the file name matches the pattern f"TE3_apply_{report_id}*.csx"
glob_matches(name, rid) ==
    /\ Len(name) >= 2
    /\ name[1] = "TE3_apply_"
    /\ name[Len(name)] = ".csx"
    /\ IsPrefix(rid, SubSeq(name, 2, Len(name) - 1))

SvcWrite(p, path, reportId) == (path :> Doc(p, reportId)) @@ svc_disk

\* parse_tableau, up to the call of the service: the upload is saved
save_upload(p) ==
    /\ svc_pc[p] = "upload"
    /\ svc_disk' = SvcWrite(p, upload_path(p), None)
    /\ svc_pc' = [svc_pc EXCEPT ![p] = "parse"]
    /\ UNCHANGED <<svc_rid, svc_file, svc_seen, svc_out, svc_ret>>
    /\ UNCHANGED <<san_vars, nt_vars, te3_vars, ga_vars, pq_vars, rj_vars, xt_vars>>

\* the parser reads the file at input_path and writes the parsed metadata,
\* whose path is returned
parse_tableau_file(p) ==
    /\ svc_pc[p] = "parse"
    /\ svc_disk' = SvcWrite(p, parsed_path(p), None)
    /\ svc_seen' = [svc_seen EXCEPT ![p] = @ \cup {svc_disk[upload_path(p)].writer,
                                                  svc_disk'[parsed_path(p)].writer}]
    /\ svc_pc' = [svc_pc EXCEPT ![p] = "artifacts"]
    /\ UNCHANGED <<svc_rid, svc_file, svc_out, svc_ret>>
    /\ UNCHANGED <<san_vars, nt_vars, te3_vars, ga_vars, pq_vars, rj_vars, xt_vars>>

\* the generator reads the parsed metadata of the run, writes under
\* ARTIFACTS_DIR / report_id, and every file under that directory is returned
generate_pbi_artifacts(p) ==
    /\ svc_pc[p] = "artifacts"
    /\ svc_disk' = SvcWrite(p, modelspec_path(p), safe_id(svc_rid[p]))
    /\ LET returned == {f \in DOMAIN svc_disk' :
                           f.area = "artifacts/model" /\ f.sub = svc_rid[p]}
       IN  svc_seen' = [svc_seen EXCEPT ![p] =
                           @ \cup {svc_disk[parsed_path(p)].writer}
                             \cup {svc_disk'[f].writer : f \in returned}]
    /\ svc_pc' = [svc_pc EXCEPT ![p] = "te3"]
    /\ UNCHANGED <<svc_rid, svc_file, svc_out, svc_ret>>
    /\ UNCHANGED <<san_vars, nt_vars, te3_vars, ga_vars, pq_vars, rj_vars, xt_vars>>

\* download_file finds no ModelSpec under the canonical name
te3_modelspec_missing(p) ==
    /\ svc_pc[p] = "te3"
    /\ canonical_modelspec_path(p) \notin DOMAIN svc_disk
    /\ svc_ret' = [svc_ret EXCEPT ![p] = [kind |-> "NotFound", arg |-> NoSvcPath]]
    /\ svc_pc' = [svc_pc EXCEPT ![p] = "error"]
    /\ UNCHANGED <<svc_rid, svc_file, svc_seen, svc_out, svc_disk>>
    /\ UNCHANGED <<san_vars, nt_vars, te3_vars, ga_vars, pq_vars, rj_vars, xt_vars>>

\* the ModelSpec is downloaded and generate_te3_script.py runs on the copy
te3_run_generator(p) ==
    /\ svc_pc[p] = "te3"
    /\ canonical_modelspec_path(p) \in DOMAIN svc_disk
    /\ LET ms == svc_disk[canonical_modelspec_path(p)]
           out_file == script_path(ms.reportId)
       IN  /\ svc_disk' = SvcWrite(p, out_file, ms.reportId)
           /\ svc_out' = [svc_out EXCEPT ![p] = out_file]
           /\ svc_seen' = [svc_seen EXCEPT ![p] = @ \cup {ms.writer}]
    /\ svc_pc' = [svc_pc EXCEPT ![p] = "locate"]
    /\ UNCHANGED <<svc_rid, svc_file, svc_ret>>
    /\ UNCHANGED <<san_vars, nt_vars, te3_vars, ga_vars, pq_vars, rj_vars, xt_vars>>

\* the script is located by pattern; scripts[0] is the first match in the
\* order of the directory listing, which is any of them
te3_locate(p) ==
    /\ svc_pc[p] = "locate"
    /\ LET scripts == {f \in DOMAIN svc_disk :
                          f.area = "te3" /\ glob_matches(f.file, svc_rid[p])}
       IN  IF scripts = {}
           THEN /\ svc_ret' = [svc_ret EXCEPT ![p] =
                                  [kind |-> "ScriptNotGenerated", arg |-> NoSvcPath]]
                /\ svc_pc' = [svc_pc EXCEPT ![p] = "error"]
                /\ UNCHANGED svc_seen
           ELSE \E script \in scripts :
                   /\ svc_ret' = [svc_ret EXCEPT ![p] = [kind |-> "path", arg |-> script]]
                   /\ svc_seen' = [svc_seen EXCEPT ![p] = @ \cup {svc_disk[script].writer}]
                   /\ svc_pc' = [svc_pc EXCEPT ![p] = "done"]
    /\ UNCHANGED <<svc_rid, svc_file, svc_out, svc_disk>>
    /\ UNCHANGED <<san_vars, nt_vars, te3_vars, ga_vars, pq_vars, rj_vars, xt_vars>>

ServiceNext ==
    \E p \in Runs :
        \/ save_upload(p)
        \/ parse_tableau_file(p)
        \/ generate_pbi_artifacts(p)
        \/ te3_modelspec_missing(p)
        \/ te3_run_generator(p)
        \/ te3_locate(p)

\* the report identifiers and the names of the uploaded files of the runs
ReportIds == {<<"R">>, <<"R", "1">>, <<"R", " ", "1">>}

UploadNames == {<<"w", ".twbx">>, <<"v", ".twbx">>}

SvcIdle ==
    /\ svc_rid = <<>> /\ svc_file = <<>> /\ svc_pc = <<>> /\ svc_seen = <<>>
    /\ svc_out = <<>> /\ svc_ret = <<>> /\ svc_disk = <<>>

\* the runs have different report identifiers; the work directory is empty
SvcInit ==
    /\ svc_rid \in {f \in [Runs -> ReportIds] : \A p, q \in Runs : f[p] = f[q] => p = q}
    /\ svc_file \in [Runs -> UploadNames]
    /\ svc_pc = [p \in Runs |-> "upload"]
    /\ svc_seen = [p \in Runs |-> {}]
    /\ svc_out = [p \in Runs |-> NoSvcPath]
    /\ svc_ret = [p \in Runs |-> [kind |-> "none", arg |-> NoSvcPath]]
    /\ svc_disk = <<>>

\* every file a run has read or returned was written by that run
ReadsOwn == \A p \in Runs : svc_seen[p] \subseteq {p}

\* no step replaces a file that another run wrote
NoOverwrite ==
    \A f \in DOMAIN svc_disk : svc_disk'[f].writer = svc_disk[f].writer

(* C12: under every interleaving of two runs for different report          *)
(* identifiers, each file a run reads or returns was written by that same  *)
(* run, and no run overwrites or picks up a file of the other.             *)
C12_RunsNeverInteract == [][ReadsOwn' /\ NoOverwrite]_vars

(* C14: once the generator has run for a report, generate_te3_script fails *)
(* with ScriptNotGenerated exactly when the output script of the report is *)
(* not on disk, and when the generator wrote that script, its path is what *)
(* is returned.                                                            *)
C14_ScriptReturnedIffWritten ==
    \A p \in Runs :
        (svc_pc[p] \in {"done", "error"} /\ svc_out[p] # NoSvcPath) =>
            /\ svc_ret[p].kind = "ScriptNotGenerated" <=> svc_out[p] \notin DOMAIN svc_disk
            /\ svc_out[p] \in DOMAIN svc_disk =>
                  svc_ret[p] = [kind |-> "path", arg |-> svc_out[p]]

InitSan == SanInit /\ NtIdle /\ Te3Idle /\ GaIdle /\ PqIdle /\ RjIdle /\ SvcIdle /\ XtIdle

SpecSan == InitSan /\ [][SanNext]_vars

InitType == NtInit /\ SanIdle /\ Te3Idle /\ GaIdle /\ PqIdle /\ RjIdle /\ SvcIdle /\ XtIdle

SpecType == InitType /\ [][NtNext]_vars

InitTe3 == Te3Init /\ SanIdle /\ NtIdle /\ GaIdle /\ PqIdle /\ RjIdle /\ SvcIdle /\ XtIdle

SpecTe3 == InitTe3 /\ [][Te3Next]_vars

InitArtifacts ==
    /\ \E ts \in SeqsUpTo(PmTables, MaxPmTables), ms \in Distinct(PmMeasures, MaxMeasures),
          src \in Sources, rid \in {None, <<"R", "1">>} :
           GaStart([tables |-> ts, relationships |-> <<>>, worksheets |-> <<>>,
                    measures |-> ms], src, rid)
    /\ SanIdle /\ NtIdle /\ Te3Idle /\ PqIdle /\ RjIdle /\ SvcIdle /\ XtIdle

SpecArtifacts == InitArtifacts /\ [][generate_artifacts]_vars

\* the visual of page p the k-th container of its section was made from:
\* the k-th visual of the page that has a field
EmittedFrom(p, k) ==
    LET vs == fs[visual_path].pages[p].visuals
        with == {i \in 1..Len(vs) : Len(vs[i].fields) >= 1}
    IN  vs[CHOOSE i \in with : Cardinality({j \in with : j <= i}) = k]

\* the positions of the fields of v whose name holds no "."
Unqualified(v) ==
    {j \in 1..Len(v.fields) : \A c \in 1..Len(v.fields[j]) : v.fields[j][c] # "."}

(* C22: the Select clause of every emitted visual holds, in the order of   *)
(* the fields of the visual, exactly one entry for each field whose name   *)
(* contains no ".", each with the target dataset as its source entity; the *)
(* fields whose name contains a "." have no entry.                         *)
C22_FieldProjection ==
    rj_pc = "done" =>
        \A p \in 1..Len(Sections) :
            \A k \in 1..Len(Sections[p].visualContainers) :
                LET v == EmittedFrom(p, k)
                    select == Sections[p].visualContainers[k].prototypeQuery.Select
                IN  /\ Len(select) = Cardinality(Unqualified(v))
                    /\ \A m \in 1..Len(select) :
                          /\ select[m].Entity = Dataset
                          /\ \E j \in Unqualified(v) :
                                /\ Cardinality({i \in Unqualified(v) : i <= j}) = m
                                /\ select[m].Property = v.fields[j]

\* a visual with a qualified field between two unqualified ones was emitted
C22_Witness ==
    /\ rj_pc = "done"
    /\ \E p \in 1..Len(Sections) :
          \E k \in 1..Len(Sections[p].visualContainers) :
              /\ Len(EmittedFrom(p, k).fields) = 3
              /\ Len(Sections[p].visualContainers[k].prototypeQuery.Select) = 2

InitPq == PqInit /\ SanIdle /\ NtIdle /\ Te3Idle /\ GaIdle /\ RjIdle /\ SvcIdle /\ XtIdle

SpecPq == InitPq /\ [][PqNext]_vars

InitLayout ==
    /\ \E ps \in VisualSpecPages : LayoutInit(ps)
    /\ RjWait
    /\ SanIdle /\ NtIdle /\ Te3Idle /\ PqIdle /\ SvcIdle /\ XtIdle

SpecLayout == InitLayout /\ [][generate_report_json]_vars

InitPipeline ==
    /\ \E ts \in PipelineTables, ms \in PipelineMeasures, ws \in PipelineWorksheets,
          src \in PipelineSources :
           GaStart([tables |-> ts, relationships |-> <<>>, worksheets |-> ws,
                    measures |-> ms], src, <<"R", " ", "1">>)
    /\ RjWait
    /\ SanIdle /\ NtIdle /\ Te3Idle /\ PqIdle /\ SvcIdle /\ XtIdle

SpecPipeline == InitPipeline /\ [][PipelineNext]_vars

(***************************************************************************)
(* The placeholders of the template and the generated code                 *)
(***************************************************************************)
\* the tables of the ParsedMetadata of the runs: none, a table with a
\* column, a table whose column is named as a placeholder of the template
AuthoringTables ==
    PipelineTables
    \cup {<<[name |-> <<"A", " ", "B">>,
             columns |-> <<[name |-> <<"{{MEASURES}}">>, type |-> None]>>]>>}

Tokens == {"{{TABLES}}", "{{MEASURES}}", "{{RELATIONSHIPS}}"}

\* the code holds a placeholder token in one of its lines
HoldsToken(code) ==
    \E l \in 1..Len(code) : \E k \in 1..Len(code[l].args) :
        \E i \in 1..Len(code[l].args[k]) : code[l].args[k][i] \in Tokens

\* the template with its three placeholders replaced at once
SimultaneousScript(ms) ==
    JoinBlocks([l \in 1..Len(Template) |->
        IF Template[l] = Line("placeholder", <<"{{TABLES}}">>) THEN tables_code(ms)
        ELSE IF Template[l] = Line("placeholder", <<"{{MEASURES}}">>) THEN measures_code(ms)
        ELSE IF Template[l] = Line("placeholder", <<"{{RELATIONSHIPS}}">>)
             THEN relationships_code(ms)
        ELSE <<Template[l]>>])

(* C20: for the ModelSpec that generate_artifacts built, none of the three *)
(* rendered code blocks holds a placeholder token, and the script of the   *)
(* three sequential replacements is the script of the simultaneous         *)
(* replacement of the three placeholders.                                  *)
C20_PlaceholdersNeverOverlap ==
    (te3_pc = "done" /\ ga_pc = "done") =>
        /\ ~HoldsToken(tables_code(te3_ms))
        /\ ~HoldsToken(measures_code(te3_ms))
        /\ ~HoldsToken(relationships_code(te3_ms))
        /\ te3_script = SimultaneousScript(te3_ms)

\* a table without columns
Bare(name) == [name |-> name, columns |-> <<>>]

\* a relationship record as extract_relationships yields it for a join of
\* column c of one table with column d of another
Join(ft, tt) ==
    [from_table |-> ft, from_column |-> <<"c">>, to_table |-> tt, to_column |-> <<"d">>]

\* the tables and relationships of the ParsedMetadata of the runs: the
\* tables above without a relationship, two tables whose names differ in
\* the character safe_id replaces, and two joined tables, with and without
\* a character that safe_id replaces in the name of the first
AuthoringInputs ==
    {[tables |-> ts, relationships |-> <<>>] : ts \in AuthoringTables}
    \cup {[tables |-> <<Bare(<<"A", " ", "B">>), Bare(<<"A", "_", "B">>)>>,
           relationships |-> <<>>],
          [tables |-> <<Bare(<<"A">>), Bare(<<"C">>)>>,
           relationships |-> <<Join(<<"A">>, <<"C">>)>>],
          [tables |-> <<Bare(<<"A", " ", "B">>), Bare(<<"C">>)>>,
           relationships |-> <<Join(<<"A", " ", "B">>, <<"C">>)>>]}

(* C23: whenever the table names of the ParsedMetadata are pairwise        *)
(* distinct, the table names of the ModelSpec that generate_artifacts      *)
(* wrote are pairwise distinct, and the script generated from it declares  *)
(* each table handle at most once.                                         *)
C23_TablesNeverMerged ==
    LET pm == parsed_meta
    IN  (ga_pc # "idle"
         /\ \A i, j \in 1..Len(pm.tables) : pm.tables[i].name = pm.tables[j].name => i = j)
        =>
        /\ model_path \in DOMAIN fs =>
              \A i, j \in 1..Len(fs[model_path].tables) :
                  fs[model_path].tables[i].name = fs[model_path].tables[j].name => i = j
        /\ (te3_pc = "done" /\ ga_pc = "done") =>
              \A k, l \in 1..Len(te3_script) :
                  (/\ te3_script[k].kind = "find_or_add_table"
                   /\ te3_script[l].kind = "find_or_add_table"
                   /\ te3_script[k].args[1] = te3_script[l].args[1]) => k = l

(* C24: every relationship of the ParsedMetadata whose four endpoints are  *)
(* non-empty and whose from_table and to_table are names of tables of the  *)
(* ParsedMetadata has a relationship-creation statement in the script      *)
(* generated from the ModelSpec built from that ParsedMetadata, and is not *)
(* skipped as "table not found".                                           *)
C24_RelationshipsMaterialized ==
    (te3_pc = "done" /\ ga_pc = "done") =>
        LET pm == parsed_meta
            names == {pm.tables[i].name : i \in 1..Len(pm.tables)}
            settled == RelationshipLines(te3_script)
        IN  /\ Len(settled) = Len(pm.relationships)
            /\ \A r \in 1..Len(pm.relationships) :
                  (/\ \A e \in Endpoints(pm.relationships[r]) : Truthy(e)
                   /\ pm.relationships[r].from_table \in names
                   /\ pm.relationships[r].to_table \in names)
                  => settled[r].kind = "AddRelationship"

InitAuthoring ==
    /\ \E in \in AuthoringInputs, ms \in Distinct(PmMeasures, MaxMeasures), src \in Sources,
          rid \in {None, <<"R", "1">>} :
           GaStart([tables |-> in.tables, relationships |-> in.relationships,
                    worksheets |-> <<>>, measures |-> ms], src, rid)
    /\ Te3Wait
    /\ SanIdle /\ NtIdle /\ PqIdle /\ RjIdle /\ SvcIdle /\ XtIdle

SpecAuthoring == InitAuthoring /\ [][AuthoringNext]_vars

InitService == SvcInit /\ SanIdle /\ NtIdle /\ Te3Idle /\ GaIdle /\ PqIdle /\ RjIdle /\ XtIdle

SpecService == InitService /\ [][ServiceNext]_vars

InitArchive == ArchiveInit /\ SanIdle /\ NtIdle /\ Te3Idle /\ GaIdle /\ PqIdle /\ RjIdle /\ SvcIdle

SpecArchive == InitArchive /\ [][ArchiveNext]_vars

InitParse == ParseInit /\ SanIdle /\ NtIdle /\ Te3Idle /\ GaIdle /\ PqIdle /\ RjIdle /\ SvcIdle

SpecParse == InitParse /\ [][ParseNext]_vars

InitDatasources ==
    DatasourcesInit /\ SanIdle /\ NtIdle /\ Te3Idle /\ GaIdle /\ PqIdle /\ RjIdle /\ SvcIdle

SpecDatasources == InitDatasources /\ [][extract_datasources]_vars

InitColumns == ColumnsInit /\ SanIdle /\ NtIdle /\ Te3Idle /\ GaIdle /\ PqIdle /\ RjIdle /\ SvcIdle

SpecColumns == InitColumns /\ [][ColumnsNext]_vars

InitCalcs == CalcsInit /\ SanIdle /\ NtIdle /\ Te3Idle /\ GaIdle /\ PqIdle /\ RjIdle /\ SvcIdle

SpecCalcs == InitCalcs /\ [][CalcsNext]_vars

====
